---- MODULE Spec2Model ----
(***************************************************************************)
(* A model of sb_tree<int, std::less<int>> (src/sb_tree.h): the node graph *)
(* with its sentinel, the rotations, the two rebalancers, the insertion    *)
(* and deletion engines, the in-order iterator and the order-statistic     *)
(* queries.  Pointers are node identifiers; the heap is the function mem.  *)
(***************************************************************************)
EXTENDS Integers, Sequences, FiniteSets, TLC

\* ------------------------------------------------------------------ bounds
MaxNodes == 4      \* at most this many nodes are alive at once
MaxKey   == 3      \* the payloads are 1..MaxKey
MaxLater == 2      \* at most this many calls follow a copy construction

\* ------------------------------------------------------------ node memory
nullptr       == 0                 \* the null pointer
header        == MaxNodes + 1      \* the address of the sentinel
indeterminate == -1                \* a field create_node left unset, or freed storage

NodeIds == 1..MaxNodes
Keys    == 1..MaxKey

\* The storage of a second tree object: its sentinel and its nodes.
other_header == MaxNodes + 2
CloneIds     == (MaxNodes + 3)..(2 * MaxNodes + 2)
Addresses    == NodeIds \cup {header, other_header} \cup CloneIds

\* Compare = std::less<int>
comp(a, b) == a < b

\* node_traits_type::allocate plus construct: only data is set.
create_node(m, p, v) ==
    [m EXCEPT ![p] = [parent |-> indeterminate, left |-> indeterminate,
                      right |-> indeterminate, size |-> indeterminate, data |-> v]]

\* destroy plus deallocate: the storage is gone.
destroy_node(m, p) ==
    [m EXCEPT ![p] = [parent |-> indeterminate, left |-> indeterminate,
                      right |-> indeterminate, size |-> indeterminate,
                      data |-> indeterminate]]

\* The address the allocator hands out: the lowest free one.
NewNode(a) == CHOOSE p \in NodeIds \ a : \A q \in NodeIds \ a : p <= q

\* create_header: value_type() is 0 for int.
create_header ==
    [p \in Addresses |->
        IF p = header
        THEN [parent |-> nullptr, left |-> header, right |-> header, size |-> 0, data |-> 0]
        ELSE [parent |-> indeterminate, left |-> indeterminate,
              right |-> indeterminate, size |-> indeterminate, data |-> indeterminate]]

\* "p ? p->size : 0"
size_or_zero(m, p) == IF p # nullptr THEN m[p].size ELSE 0

RECURSIVE leftmost(_, _)
leftmost(m, t) == IF m[t].left # nullptr THEN leftmost(m, m[t].left) ELSE t

RECURSIVE rightmost(_, _)
rightmost(m, t) == IF m[t].right # nullptr THEN rightmost(m, m[t].right) ELSE t

\* --------------------------------------------------------------- rotations
\* Straight-line code is a chain of steps: step k takes the memory the
\* steps before it left and gives the memory after its own statement.

\* Mutant of left_rotate: the new root does not take over the size of t.
left_rotate_keeps_size(m, t) ==
    LET r == m[t].right
        \* t->right = r->left;
        s1(a) == [a EXCEPT ![t].right = a[r].left]
        \* if (r->left) r->left->parent = t;
        s2(a) == IF a[r].left # nullptr THEN [a EXCEPT ![a[r].left].parent = t] ELSE a
        \* r->parent = t->parent;
        s3(a) == [a EXCEPT ![r].parent = a[t].parent]
        \* the link of t's parent
        s4(a) == IF t = a[header].parent THEN [a EXCEPT ![header].parent = r]
                 ELSE IF t = a[a[t].parent].left THEN [a EXCEPT ![a[t].parent].left = r]
                 ELSE [a EXCEPT ![a[t].parent].right = r]
        \* r->left = t;  t->parent = r;
        s5(a) == [a EXCEPT ![r].left = t]
        s7(a) == [a EXCEPT ![t].parent = r]
        \* t->size = (t->left ? t->left->size : 0) + (t->right ? t->right->size : 0) + 1;
        s8(a) == [a EXCEPT ![t].size = size_or_zero(a, a[t].left)
                                      + size_or_zero(a, a[t].right) + 1]
    IN  [m |-> s8(s7(s5(s4(s3(s2(s1(m))))))), t |-> r]

left_rotate(m, t) ==
    LET r == m[t].right
        \* t->right = r->left;
        s1(a) == [a EXCEPT ![t].right = a[r].left]
        \* if (r->left) r->left->parent = t;
        s2(a) == IF a[r].left # nullptr THEN [a EXCEPT ![a[r].left].parent = t] ELSE a
        \* r->parent = t->parent;
        s3(a) == [a EXCEPT ![r].parent = a[t].parent]
        \* the link of t's parent
        s4(a) == IF t = a[header].parent THEN [a EXCEPT ![header].parent = r]
                 ELSE IF t = a[a[t].parent].left THEN [a EXCEPT ![a[t].parent].left = r]
                 ELSE [a EXCEPT ![a[t].parent].right = r]
        \* r->left = t;  r->size = t->size;  t->parent = r;
        s5(a) == [a EXCEPT ![r].left = t]
        s6(a) == [a EXCEPT ![r].size = a[t].size]
        s7(a) == [a EXCEPT ![t].parent = r]
        \* t->size = (t->left ? t->left->size : 0) + (t->right ? t->right->size : 0) + 1;
        s8(a) == [a EXCEPT ![t].size = size_or_zero(a, a[t].left)
                                      + size_or_zero(a, a[t].right) + 1]
    IN  [m |-> s8(s7(s6(s5(s4(s3(s2(s1(m)))))))), t |-> r]

\* Mutant of right_rotate: the parent pointer of t is not set to l.
right_rotate_keeps_parent(m, t) ==
    LET l == m[t].left
        \* t->left = l->right;
        s1(a) == [a EXCEPT ![t].left = a[l].right]
        \* if (l->right) l->right->parent = t;
        s2(a) == IF a[l].right # nullptr THEN [a EXCEPT ![a[l].right].parent = t] ELSE a
        \* l->parent = t->parent;
        s3(a) == [a EXCEPT ![l].parent = a[t].parent]
        \* the link of t's parent
        s4(a) == IF t = a[header].parent THEN [a EXCEPT ![header].parent = l]
                 ELSE IF t = a[a[t].parent].right THEN [a EXCEPT ![a[t].parent].right = l]
                 ELSE [a EXCEPT ![a[t].parent].left = l]
        \* l->right = t;  l->size = t->size;
        s5(a) == [a EXCEPT ![l].right = t]
        s6(a) == [a EXCEPT ![l].size = a[t].size]
        \* t->size = (t->left ? t->left->size : 0) + (t->right ? t->right->size : 0) + 1;
        s8(a) == [a EXCEPT ![t].size = size_or_zero(a, a[t].left)
                                      + size_or_zero(a, a[t].right) + 1]
    IN  [m |-> s8(s6(s5(s4(s3(s2(s1(m))))))), t |-> l]

right_rotate(m, t) ==
    LET l == m[t].left
        \* t->left = l->right;
        s1(a) == [a EXCEPT ![t].left = a[l].right]
        \* if (l->right) l->right->parent = t;
        s2(a) == IF a[l].right # nullptr THEN [a EXCEPT ![a[l].right].parent = t] ELSE a
        \* l->parent = t->parent;
        s3(a) == [a EXCEPT ![l].parent = a[t].parent]
        \* the link of t's parent
        s4(a) == IF t = a[header].parent THEN [a EXCEPT ![header].parent = l]
                 ELSE IF t = a[a[t].parent].right THEN [a EXCEPT ![a[t].parent].right = l]
                 ELSE [a EXCEPT ![a[t].parent].left = l]
        \* l->right = t;  l->size = t->size;  t->parent = l;
        s5(a) == [a EXCEPT ![l].right = t]
        s6(a) == [a EXCEPT ![l].size = a[t].size]
        s7(a) == [a EXCEPT ![t].parent = l]
        \* t->size = (t->left ? t->left->size : 0) + (t->right ? t->right->size : 0) + 1;
        s8(a) == [a EXCEPT ![t].size = size_or_zero(a, a[t].left)
                                      + size_or_zero(a, a[t].right) + 1]
    IN  [m |-> s8(s7(s6(s5(s4(s3(s2(s1(m)))))))), t |-> l]

\* ------------------------------------------------------------- rebalancers
\* A rebalancer returns the memory, the subtree's new root t, and d, the
\* deepest nesting of rebalancer calls below this one (0: no nested call;
\* a call made from inside a call is one level deeper than its caller).
Max(a, b) == IF a >= b THEN a ELSE b

\* "t->left = f(t->left)": the call r, then the store of its result.
StoreLeft(r, t)  == [r.m EXCEPT ![t].left = r.t]
StoreRight(r, t) == [r.m EXCEPT ![t].right = r.t]

\* t->right = right_rotate(t->right);   t->left = left_rotate(t->left);
RotateRightChild(m, t) == StoreRight(right_rotate(m, m[t].right), t)
RotateLeftChild(m, t)  == StoreLeft(left_rotate(m, m[t].left), t)

\* The frame of a rebalancer call that takes one of its cases, after
\* "t = rotate(t)": the memory, the local t, no nested call yet.
Frame(r) == [m |-> r.m, t |-> r.t, d |-> 0, calls |-> <<>>]

\* The frame s after a nested call that returned r:
\* "t->left = <r>", "t->right = <r>", and "t = <r>" with the return of t.
\* calls is the list of the nested calls made so far, each with the node it
\* was called with, the memory before and after it, the root it returned
\* and its own nested calls.
Nested(s, t, r) ==
    Append(s.calls, [node |-> t, before |-> s.m, after |-> r.m, root |-> r.t,
                     calls |-> r.calls])

IntoLeft(s, r)  == [m |-> StoreLeft(r, s.t),  t |-> s.t, d |-> Max(s.d, 1 + r.d),
                    calls |-> Nested(s, s.m[s.t].left, r)]
IntoRight(s, r) == [m |-> StoreRight(r, s.t), t |-> s.t, d |-> Max(s.d, 1 + r.d),
                    calls |-> Nested(s, s.m[s.t].right, r)]
IntoSelf(s, r)  == [m |-> r.m, t |-> r.t, d |-> Max(s.d, 1 + r.d),
                    calls |-> Nested(s, s.t, r)]

\* Mutant of insert_rebalance: it never rotates.
insert_rebalance_none(m, t, flag) == [m |-> m, t |-> t, d |-> 0, calls |-> <<>>]

RECURSIVE insert_rebalance(_, _, _)
insert_rebalance(m, t, flag) ==
    LET \* t->left = insert_rebalance(t->left, f);
        left(s, f)  == IntoLeft(s, insert_rebalance(s.m, s.m[s.t].left, f))
        \* t->right = insert_rebalance(t->right, f);
        right(s, f) == IntoRight(s, insert_rebalance(s.m, s.m[s.t].right, f))
        \* t = insert_rebalance(t, f);
        self(s, f)  == IntoSelf(s, insert_rebalance(s.m, s.t, f))
        left_size   == size_or_zero(m, m[t].left)
        right_size  == size_or_zero(m, m[t].right)
    IN  IF flag
        THEN IF m[t].right # nullptr
             THEN IF m[m[t].right].left # nullptr /\ left_size < m[m[m[t].right].left].size
                  THEN \* case 1: size(T.left) < size(T.right.left)
                       self(right(left(Frame(left_rotate(RotateRightChild(m, t), t)),
                                       FALSE), TRUE), TRUE)
                  ELSE IF m[m[t].right].right # nullptr
                          /\ left_size < m[m[m[t].right].right].size
                  THEN \* case 2: size(T.left) < size(T.right.right)
                       self(left(Frame(left_rotate(m, t)), FALSE), TRUE)
                  ELSE [m |-> m, t |-> t, d |-> 0, calls |-> <<>>]
             ELSE [m |-> m, t |-> t, d |-> 0, calls |-> <<>>]
        ELSE IF m[t].left # nullptr
             THEN IF m[m[t].left].right # nullptr /\ right_size < m[m[m[t].left].right].size
                  THEN \* case 3: size(T.right) < size(T.left.right)
                       self(right(left(Frame(right_rotate(RotateLeftChild(m, t), t)),
                                       FALSE), TRUE), FALSE)
                  ELSE IF m[m[t].left].left # nullptr
                          /\ right_size < m[m[m[t].left].left].size
                  THEN \* case 4: size(T.right) < size(T.left.left)
                       self(right(Frame(right_rotate(m, t)), TRUE), FALSE)
                  ELSE [m |-> m, t |-> t, d |-> 0, calls |-> <<>>]
             ELSE [m |-> m, t |-> t, d |-> 0, calls |-> <<>>]

RECURSIVE erase_rebalance(_, _, _)
\* Mutant of erase_rebalance: a call that takes no rotation case recomputes
\* t->size from the sizes of the children before it returns.
erase_rebalance_resizes(m, t, flag) ==
    LET \* t->left = erase_rebalance(t->left, f);
        left(s, f)  == IntoLeft(s, erase_rebalance(s.m, s.m[s.t].left, f))
        \* t->right = erase_rebalance(t->right, f);
        right(s, f) == IntoRight(s, erase_rebalance(s.m, s.m[s.t].right, f))
        \* t = erase_rebalance(t, f);
        self(s, f)  == IntoSelf(s, erase_rebalance(s.m, s.t, f))
        left_size   == size_or_zero(m, m[t].left)
        right_size  == size_or_zero(m, m[t].right)
        \* t->size = left_size + right_size + 1;  return t;
        none        == [m |-> [m EXCEPT ![t].size = left_size + right_size + 1],
                        t |-> t, d |-> 0, calls |-> <<>>]
    IN  IF ~flag
        THEN IF m[t].right # nullptr
             THEN IF m[m[t].right].left # nullptr /\ left_size < m[m[m[t].right].left].size
                  THEN \* case 1: size(T.left) < size(T.right.left)
                       self(right(left(Frame(left_rotate(RotateRightChild(m, t), t)),
                                       TRUE), FALSE), FALSE)
                  ELSE IF m[m[t].right].right # nullptr
                          /\ left_size < m[m[m[t].right].right].size
                  THEN \* case 2: size(T.left) < size(T.right.right)
                       self(left(Frame(left_rotate(m, t)), TRUE), FALSE)
                  ELSE none
             ELSE none
        ELSE IF m[t].left # nullptr
             THEN IF m[m[t].left].right # nullptr /\ right_size < m[m[m[t].left].right].size
                  THEN \* case 3: size(T.right) < size(T.left.right)
                       self(right(left(Frame(right_rotate(RotateLeftChild(m, t), t)),
                                       TRUE), FALSE), TRUE)
                  ELSE IF m[m[t].left].left # nullptr
                          /\ right_size < m[m[m[t].left].left].size
                  THEN \* case 4: size(T.right) < size(T.left.left)
                       self(right(Frame(right_rotate(m, t)), FALSE), TRUE)
                  ELSE none
             ELSE none

erase_rebalance(m, t, flag) ==
    LET \* t->left = erase_rebalance(t->left, f);
        left(s, f)  == IntoLeft(s, erase_rebalance(s.m, s.m[s.t].left, f))
        \* t->right = erase_rebalance(t->right, f);
        right(s, f) == IntoRight(s, erase_rebalance(s.m, s.m[s.t].right, f))
        \* t = erase_rebalance(t, f);
        self(s, f)  == IntoSelf(s, erase_rebalance(s.m, s.t, f))
        left_size   == size_or_zero(m, m[t].left)
        right_size  == size_or_zero(m, m[t].right)
    IN  IF ~flag
        THEN IF m[t].right # nullptr
             THEN IF m[m[t].right].left # nullptr /\ left_size < m[m[m[t].right].left].size
                  THEN \* case 1: size(T.left) < size(T.right.left)
                       self(right(left(Frame(left_rotate(RotateRightChild(m, t), t)),
                                       TRUE), FALSE), FALSE)
                  ELSE IF m[m[t].right].right # nullptr
                          /\ left_size < m[m[m[t].right].right].size
                  THEN \* case 2: size(T.left) < size(T.right.right)
                       self(left(Frame(left_rotate(m, t)), TRUE), FALSE)
                  ELSE [m |-> m, t |-> t, d |-> 0, calls |-> <<>>]
             ELSE [m |-> m, t |-> t, d |-> 0, calls |-> <<>>]
        ELSE IF m[t].left # nullptr
             THEN IF m[m[t].left].right # nullptr /\ right_size < m[m[m[t].left].right].size
                  THEN \* case 3: size(T.right) < size(T.left.right)
                       self(right(left(Frame(right_rotate(RotateLeftChild(m, t), t)),
                                       TRUE), FALSE), TRUE)
                  ELSE IF m[m[t].left].left # nullptr
                          /\ right_size < m[m[m[t].left].left].size
                  THEN \* case 4: size(T.right) < size(T.left.left)
                       self(right(Frame(right_rotate(m, t)), FALSE), TRUE)
                  ELSE [m |-> m, t |-> t, d |-> 0, calls |-> <<>>]
             ELSE [m |-> m, t |-> t, d |-> 0, calls |-> <<>>]

\* --------------------------------------------------------- insertion engine
\* One entry of the log of a rebalance climb: the node the rebalancer was
\* called with, its flag, the nesting depth it reached, whether it changed
\* the memory.
ClimbEntry(m, p, flag, r) ==
    [node |-> p, flag |-> flag, d |-> r.d, changed |-> (r.m # m),
     before |-> m, after |-> r.m, root |-> r.t, calls |-> r.calls]

\* do { t = insert_rebalance(t->parent, t == t->parent->right); }
\* while (t->parent != header);
RECURSIVE insert_climb(_, _, _)
insert_climb(m, t, log) ==
    LET p    == m[t].parent
        flag == (t = m[p].right)
        while(r, log2) == IF r.m[r.t].parent # header
                          THEN insert_climb(r.m, r.t, log2)
                          ELSE [m |-> r.m, log |-> log2]
        do(r) == while(r, Append(log, ClimbEntry(m, p, flag, r)))
    IN  do(insert_rebalance(m, p, flag))

\* Mutant of attach_left: header->left is not moved to a new first node.
attach_left_keeps_begin(m, t, n) ==
    LET m1 == [m EXCEPT ![n].parent = t]
    IN  [m1 EXCEPT ![t].left = n]

\* The new node n becomes the left child of t.
attach_left(m, t, n) ==
    LET m1 == [m EXCEPT ![n].parent = t]
        m2 == [m1 EXCEPT ![t].left = n]
    IN  IF t = m2[header].left THEN [m2 EXCEPT ![header].left = n] ELSE m2

\* The new node n becomes the right child of t.
attach_right(m, t, n) ==
    LET m1 == [m EXCEPT ![n].parent = t]
        m2 == [m1 EXCEPT ![t].right = n]
    IN  IF t = m2[header].right THEN [m2 EXCEPT ![header].right = n] ELSE m2

\* The new node n becomes the root of the empty tree.
attach_root(m, n) ==
    LET m1 == [m EXCEPT ![n].parent = header]
        m2 == [m1 EXCEPT ![header].parent = n]
        m3 == [m2 EXCEPT ![header].left = n]
    IN  [m3 EXCEPT ![header].right = n]

\* n->left = nullptr; n->right = nullptr; n->size = 1;
init_leaf(m, n) ==
    [m EXCEPT ![n].left = nullptr, ![n].right = nullptr, ![n].size = 1]

\* What an insertion returns: the memory, the node of the iterator, the
\* bool of the pair, the log of the climb r.
Inserted(r, n) == [m |-> r.m, node |-> n, ok |-> TRUE, log |-> r.log]

\* Mutant of insert_equal_descend: an equal value goes to the left.
RECURSIVE insert_equal_descend_before_equal(_, _, _)
insert_equal_descend_before_equal(m, t, n) ==
    LET m1 == [m EXCEPT ![t].size = @ + 1]
    IN  IF ~comp(m1[t].data, m1[n].data)
        THEN IF m1[t].left # nullptr
             THEN insert_equal_descend_before_equal(m1, m1[t].left, n)
             ELSE insert_climb(attach_left(m1, t, n), t, <<>>)
        ELSE IF m1[t].right # nullptr
             THEN insert_equal_descend_before_equal(m1, m1[t].right, n)
             ELSE insert_climb(attach_right(m1, t, n), t, <<>>)

\* The while (t) loop of insert_equal_node.
RECURSIVE insert_equal_descend(_, _, _)
insert_equal_descend(m, t, n) ==
    LET m1 == [m EXCEPT ![t].size = @ + 1]
    IN  IF comp(m1[n].data, m1[t].data)
        THEN IF m1[t].left # nullptr
             THEN insert_equal_descend(m1, m1[t].left, n)
             ELSE insert_climb(attach_left(m1, t, n), t, <<>>)
        ELSE IF m1[t].right # nullptr
             THEN insert_equal_descend(m1, m1[t].right, n)
             ELSE insert_climb(attach_right(m1, t, n), t, <<>>)

\* insert_equal_node(value), p the address create_node returns.
insert_equal_node(m, p, v) ==
    LET m0 == init_leaf(create_node(m, p, v), p)
    IN  IF m0[header].parent # nullptr
        THEN Inserted(insert_equal_descend(m0, m0[header].parent, p), p)
        ELSE [m |-> attach_root(m0, p), node |-> p, ok |-> TRUE, log |-> <<>>]

\* for (node_pointer p = t; p != header; p = p->parent) ++p->size;
RECURSIVE increase_sizes(_, _)
increase_sizes(m, p) ==
    IF p # header THEN increase_sizes([m EXCEPT ![p].size = @ + 1], m[p].parent) ELSE m

\* The while (t) loop of insert_unique_node; the node is created at the
\* empty edge only.
RECURSIVE insert_unique_descend(_, _, _, _)
insert_unique_descend(m, t, p, val) ==
    IF comp(val, m[t].data)
    THEN IF m[t].left # nullptr
         THEN insert_unique_descend(m, m[t].left, p, val)
         ELSE Inserted(insert_climb(
                  increase_sizes(attach_left(init_leaf(create_node(m, p, val), p), t, p), t),
                  t, <<>>), p)
    ELSE IF ~comp(m[t].data, val)
         THEN [m |-> m, node |-> t, ok |-> FALSE, log |-> <<>>]
         ELSE IF m[t].right # nullptr
              THEN insert_unique_descend(m, m[t].right, p, val)
              ELSE Inserted(insert_climb(
                       increase_sizes(attach_right(init_leaf(create_node(m, p, val), p), t, p), t),
                       t, <<>>), p)

\* Mutant of insert_unique_node: the root is counted up before the descent,
\* as insert_equal_node does.
insert_unique_node_counts_first(m, p, val) ==
    IF m[header].parent # nullptr
    THEN insert_unique_descend([m EXCEPT ![m[header].parent].size = @ + 1],
                               m[header].parent, p, val)
    ELSE [m |-> attach_root(init_leaf(create_node(m, p, val), p), p),
          node |-> p, ok |-> TRUE, log |-> <<>>]

\* insert_unique_node(value), p the address create_node would return.
insert_unique_node(m, p, val) ==
    IF m[header].parent # nullptr
    THEN insert_unique_descend(m, m[header].parent, p, val)
    ELSE [m |-> attach_root(init_leaf(create_node(m, p, val), p), p),
          node |-> p, ok |-> TRUE, log |-> <<>>]

\* insert_equal_node(value) when the allocator has no storage: create_node is
\* the first statement, and its allocate leaves by an exception before any
\* store.  thrown tells that the call left by it.
insert_equal_node_bad_alloc(m, v) == [m |-> m, thrown |-> TRUE]

\* The while (t) loop of insert_unique_node when the allocator has no
\* storage: the descent stores nothing, and create_node at the empty edge
\* leaves by an exception; an equivalent element ends the call before.
RECURSIVE insert_unique_descend_bad_alloc(_, _, _)
insert_unique_descend_bad_alloc(m, t, val) ==
    IF comp(val, m[t].data)
    THEN IF m[t].left # nullptr
         THEN insert_unique_descend_bad_alloc(m, m[t].left, val)
         ELSE [m |-> m, thrown |-> TRUE]
    ELSE IF ~comp(m[t].data, val)
         THEN [m |-> m, thrown |-> FALSE]
         ELSE IF m[t].right # nullptr
              THEN insert_unique_descend_bad_alloc(m, m[t].right, val)
              ELSE [m |-> m, thrown |-> TRUE]

insert_unique_node_bad_alloc(m, val) ==
    IF m[header].parent # nullptr
    THEN insert_unique_descend_bad_alloc(m, m[header].parent, val)
    ELSE [m |-> m, thrown |-> TRUE]

\* ---------------------------------------------------------- deletion engine
\* Mutant of decrease_sizes: the counts of the ancestors are left as they were.
decrease_sizes_none(m, p) == m

\* for (node_pointer p = ...; p != header; p = p->parent) --p->size;
RECURSIVE decrease_sizes(_, _)
decrease_sizes(m, p) ==
    IF p # header THEN decrease_sizes([m EXCEPT ![p].size = @ - 1], m[p].parent) ELSE m

\* while (p != header) p = erase_rebalance(p->parent, p == p->parent->right);
RECURSIVE erase_climb_loop(_, _, _)
erase_climb_loop(m, p, log) ==
    LET q    == m[p].parent
        flag == (p = m[q].right)
        body(r) == erase_climb_loop(r.m, r.t, Append(log, ClimbEntry(m, q, flag, r)))
    IN  IF p # header
        THEN body(erase_rebalance(m, q, flag))
        ELSE [m |-> m, log |-> log]

\* node_pointer p = erase_rebalance(parent, flag); then the loop above.
erase_climb(m, parent, flag) ==
    LET loop(r) == erase_climb_loop(r.m, r.t, <<ClimbEntry(m, parent, flag, r)>>)
    IN  loop(erase_rebalance(m, parent, flag))

\* if (t == header->parent) header->parent = x;
\* else if (t == t->parent->left) t->parent->left = x; else t->parent->right = x;
replace_in_parent(m, t, x) ==
    IF t = m[header].parent THEN [m EXCEPT ![header].parent = x]
    ELSE IF t = m[m[t].parent].left THEN [m EXCEPT ![m[t].parent].left = x]
    ELSE [m EXCEPT ![m[t].parent].right = x]

\* case 1 of erase_node: t has one child node at most.
erase_one_child(m, t) ==
    LET x    == IF m[t].left # nullptr THEN m[t].left ELSE m[t].right
        flag == (t = m[m[t].parent].right)
        \* if (x) x->parent = t->parent;
        s1(a) == IF x # nullptr THEN [a EXCEPT ![x].parent = a[t].parent] ELSE a
        \* if (t == header->left) header->left = x ? leftmost(x) : t->parent;
        s3(a) == IF t = a[header].left
                 THEN [a EXCEPT ![header].left =
                           IF x # nullptr THEN leftmost(a, x) ELSE a[t].parent]
                 ELSE a
        \* if (t == header->right) header->right = x ? rightmost(x) : t->parent;
        s4(a) == IF t = a[header].right
                 THEN [a EXCEPT ![header].right =
                           IF x # nullptr THEN rightmost(a, x) ELSE a[t].parent]
                 ELSE a
        \* for (p = t->parent; p != header; p = p->parent) --p->size;
        s5(a) == decrease_sizes(a, a[t].parent)
        \* if (t != header) { the climb }
        s6(a) == IF t # header THEN erase_climb(a, a[t].parent, flag)
                 ELSE [m |-> a, log |-> <<>>]
    IN  s6(s5(s4(s3(replace_in_parent(s1(m), t, x)))))

\* Which replacement case 2 of erase_node takes: TRUE for leftmost(t->right).
\* Mutant of takes_successor: the comparison is the other way round.
takes_successor_reversed(m, t) == m[m[t].left].size > m[m[t].right].size

takes_successor(m, t) == m[m[t].left].size < m[m[t].right].size

\* case 2 of erase_node, if branch: x = leftmost(t->right) replaces t.
erase_by_successor(m, t) ==
    LET x    == leftmost(m, m[t].right)
        flag == (x = m[m[x].parent].right)
        \* for (p = x->parent; p != header; p = p->parent) --p->size;
        s1(a) == decrease_sizes(a, a[x].parent)
        \* t->left->parent = x;  x->left = t->left;
        s2(a) == [a EXCEPT ![a[t].left].parent = x]
        s3(a) == [a EXCEPT ![x].left = a[t].left]
        \* x->parent->left = x->right;  if (x->right) x->right->parent = x->parent;
        f1(a) == [a EXCEPT ![a[x].parent].left = a[x].right]
        f2(a) == IF a[x].right # nullptr
                 THEN [a EXCEPT ![a[x].right].parent = a[x].parent] ELSE a
        \* t->right->parent = x;  x->right = t->right;  parent = x->parent;
        f3(a) == [a EXCEPT ![a[t].right].parent = x]
        f4(a) == [a EXCEPT ![x].right = a[t].right]
        f5(a) == [m |-> a, parent |-> a[x].parent]
        \* if (x != t->right) { ... } else parent = x;
        s4(a) == IF x # a[t].right THEN f5(f4(f3(f2(f1(a))))) ELSE [m |-> a, parent |-> x]
        \* x->parent = t->parent;  x->size = t->size;
        s6(a) == [a EXCEPT ![x].parent = a[t].parent]
        s7(a) == [a EXCEPT ![x].size = a[t].size]
        s8(s) == erase_climb(s7(s6(replace_in_parent(s.m, t, x))), s.parent, flag)
    IN  s8(s4(s3(s2(s1(m)))))

\* case 2 of erase_node, else branch: x = rightmost(t->left) replaces t.
erase_by_predecessor(m, t) ==
    LET x    == rightmost(m, m[t].left)
        flag == (x = m[m[x].parent].right)
        \* for (p = x->parent; p != header; p = p->parent) --p->size;
        s1(a) == decrease_sizes(a, a[x].parent)
        \* t->right->parent = x;  x->right = t->right;
        s2(a) == [a EXCEPT ![a[t].right].parent = x]
        s3(a) == [a EXCEPT ![x].right = a[t].right]
        \* x->parent->right = x->left;  if (x->left) x->left->parent = x->parent;
        f1(a) == [a EXCEPT ![a[x].parent].right = a[x].left]
        f2(a) == IF a[x].left # nullptr
                 THEN [a EXCEPT ![a[x].left].parent = a[x].parent] ELSE a
        \* t->left->parent = x;  x->left = t->left;  parent = x->parent;
        f3(a) == [a EXCEPT ![a[t].left].parent = x]
        f4(a) == [a EXCEPT ![x].left = a[t].left]
        f5(a) == [m |-> a, parent |-> a[x].parent]
        \* if (x != t->left) { ... } else parent = x;
        s4(a) == IF x # a[t].left THEN f5(f4(f3(f2(f1(a))))) ELSE [m |-> a, parent |-> x]
        \* x->parent = t->parent;  x->size = t->size;
        s6(a) == [a EXCEPT ![x].parent = a[t].parent]
        s7(a) == [a EXCEPT ![x].size = a[t].size]
        s8(s) == erase_climb(s7(s6(replace_in_parent(s.m, t, x))), s.parent, flag)
    IN  s8(s4(s3(s2(s1(m)))))

\* Mutant of Destroyed: the node is unlinked and never destroyed.
Destroyed_never(r, t) == [m |-> r.m, log |-> r.log]

\* The memory after destroy_node(t), with the log of the climb r.
Destroyed(r, t) == [m |-> destroy_node(r.m, t), log |-> r.log]

\* Mutant of erase_node: a node with two children takes over the payload of
\* its in-order successor, and the successor's node is the one removed.
erase_node_moves_payload(m, t) ==
    IF m[t].left = nullptr \/ m[t].right = nullptr
    THEN Destroyed(erase_one_child(m, t), t)
    ELSE LET x == leftmost(m, m[t].right)
         IN  Destroyed(erase_one_child([m EXCEPT ![t].data = m[x].data], x), x)

\* erase_node(t): the surgery, the climb, then destroy_node(t).
erase_node(m, t) ==
    Destroyed(IF m[t].left = nullptr \/ m[t].right = nullptr
              THEN erase_one_child(m, t)
              ELSE IF takes_successor(m, t)
                   THEN erase_by_successor(m, t)
                   ELSE erase_by_predecessor(m, t),
              t)

\* -------------------------------------------------------- in-order iterator
\* while (node == p->right) { node = p; p = p->parent; }
RECURSIVE climb_while_right(_, _, _)
climb_while_right(m, node, p) ==
    IF node = m[p].right THEN climb_while_right(m, p, m[p].parent)
    ELSE [node |-> node, p |-> p]

\* sb_tree_iterator::operator++
increment(m, node) ==
    IF m[node].right # nullptr
    THEN leftmost(m, m[node].right)
    ELSE LET c == climb_while_right(m, node, m[node].parent)
         IN  IF m[c.node].right # c.p THEN c.p ELSE c.node

\* while (node == p->left) { node = p; p = p->parent; }  node = p;
RECURSIVE climb_while_left(_, _, _)
climb_while_left(m, node, p) ==
    IF node = m[p].left THEN climb_while_left(m, p, m[p].parent) ELSE p

\* sb_tree_iterator::operator--
decrement(m, node) ==
    IF m[node].parent = nullptr \/ m[m[node].parent].parent = node
    THEN m[node].right
    ELSE IF m[node].left # nullptr
         THEN rightmost(m, m[node].left)
         ELSE climb_while_left(m, node, m[node].parent)

\* begin() and end()
begin(m) == m[header].left
end(m)   == header

\* empty() and size()
empty(m) == m[header].parent = nullptr
size(m)  == IF m[header].parent # nullptr THEN m[m[header].parent].size ELSE 0

\* ------------------------------------------------------- primitive iterator
\* The values of sb_tree_node_state.
sb_tree_state_root    == 0
sb_tree_state_parent  == -15
sb_tree_state_left    == 18
sb_tree_state_right   == 19
sb_tree_state_sibling == 4

\* root(): header->parent ? header->parent : header
root(m) == IF m[header].parent # nullptr THEN m[header].parent ELSE header

\* pbegin() and pend(): a primitive iterator is a node and a state.
pbegin(m) == [node |-> root(m), state |-> sb_tree_state_root]
pend(m)   == [node |-> header, state |-> sb_tree_state_root]

\* Mutant of primitive_increment: a left child never passes on to its sibling.
primitive_increment_no_sibling(m, it) ==
    IF it.state # sb_tree_state_parent /\ m[it.node].left # nullptr
    THEN [node |-> m[it.node].left, state |-> sb_tree_state_left]
    ELSE IF it.state # sb_tree_state_parent /\ m[it.node].right # nullptr
    THEN [node |-> m[it.node].right, state |-> sb_tree_state_right]
    ELSE [node |-> m[it.node].parent, state |-> sb_tree_state_parent]

\* sb_tree_primitive_iterator::operator++
primitive_increment(m, it) ==
    IF it.state # sb_tree_state_parent /\ m[it.node].left # nullptr
    THEN [node |-> m[it.node].left, state |-> sb_tree_state_left]
    ELSE IF it.state # sb_tree_state_parent /\ m[it.node].right # nullptr
    THEN [node |-> m[it.node].right, state |-> sb_tree_state_right]
    ELSE IF /\ it.node # m[m[it.node].parent].parent
            /\ m[m[it.node].parent].right # nullptr
            /\ it.node # m[m[it.node].parent].right
    THEN [node |-> m[m[it.node].parent].right, state |-> sb_tree_state_sibling]
    ELSE [node |-> m[it.node].parent, state |-> sb_tree_state_parent]

\* ------------------------------------------------------------------ queries
\* The loop of lower_bound_node, find_node and rank_node: pre is the last
\* node not less than key.
RECURSIVE lower_bound_loop(_, _, _, _)
lower_bound_loop(m, pre, cur, key) ==
    IF cur # nullptr
    THEN IF ~comp(m[cur].data, key)
         THEN lower_bound_loop(m, cur, m[cur].left, key)
         ELSE lower_bound_loop(m, pre, m[cur].right, key)
    ELSE pre

lower_bound_node(m, key) == lower_bound_loop(m, header, m[header].parent, key)

\* Mutant of upper_bound_loop: it stops at a node that is not less than key.
RECURSIVE upper_bound_loop_not_less(_, _, _, _)
upper_bound_loop_not_less(m, pre, cur, key) ==
    IF cur # nullptr
    THEN IF ~comp(m[cur].data, key)
         THEN upper_bound_loop_not_less(m, cur, m[cur].left, key)
         ELSE upper_bound_loop_not_less(m, pre, m[cur].right, key)
    ELSE pre

RECURSIVE upper_bound_loop(_, _, _, _)
upper_bound_loop(m, pre, cur, key) ==
    IF cur # nullptr
    THEN IF comp(key, m[cur].data)
         THEN upper_bound_loop(m, cur, m[cur].left, key)
         ELSE upper_bound_loop(m, pre, m[cur].right, key)
    ELSE pre

upper_bound_node(m, key) == upper_bound_loop(m, header, m[header].parent, key)

\* Mutant of find_node: the candidate is returned without the final test.
find_node_unchecked(m, key) == lower_bound_loop(m, header, m[header].parent, key)

find_node(m, key) ==
    LET pre == lower_bound_loop(m, header, m[header].parent, key)
    IN  IF comp(key, m[pre].data) THEN header ELSE pre

\* at(const KeyType& key).  thrown is the exception the call leaves by.  In
\* return itr->data, operator-> gives the address of the stored element, so
\* the expression names a member data of the element and not the element:
\* for an element that has no such member (the integers stored here) there
\* is no well-formed at, and no element is handed back.  returns = FALSE
\* stands for that.
at(m, key) ==
    IF empty(m)
    THEN [thrown |-> "domain_error", node |-> nullptr, returns |-> TRUE]
    ELSE LET itr == find_node(m, key)
         IN  IF itr = end(m)
             THEN [thrown |-> "out_of_range", node |-> nullptr, returns |-> TRUE]
             ELSE [thrown |-> "none", node |-> itr, returns |-> FALSE]

\* Mutant of select_loop: a step to the right subtracts the left size only.
RECURSIVE select_loop_keeps_one(_, _, _)
select_loop_keeps_one(m, t, k) ==
    IF t # nullptr
    THEN LET left_size == size_or_zero(m, m[t].left)
         IN  IF left_size < k THEN select_loop_keeps_one(m, m[t].right, k - left_size)
             ELSE IF k < left_size THEN select_loop_keeps_one(m, m[t].left, k)
             ELSE t
    ELSE header

\* The while (t) loop of select_node.
RECURSIVE select_loop(_, _, _)
select_loop(m, t, k) ==
    IF t # nullptr
    THEN LET left_size == size_or_zero(m, m[t].left)
         IN  IF left_size < k THEN select_loop(m, m[t].right, k - (left_size + 1))
             ELSE IF k < left_size THEN select_loop(m, m[t].left, k)
             ELSE t
    ELSE header

select_node(m, k) == select_loop(m, m[header].parent, k)

\* static_cast<size_type>(-1), the value rank gives for a key not present
not_present == -1

\* Mutant of rank_loop: a step to the right counts the left subtree only.
RECURSIVE rank_loop_left_only(_, _, _, _)
rank_loop_left_only(m, rank, cur, key) ==
    IF cur # nullptr
    THEN IF ~comp(m[cur].data, key)
         THEN rank_loop_left_only(m, rank, m[cur].left, key)
         ELSE rank_loop_left_only(m, rank + size_or_zero(m, m[cur].left),
                                  m[cur].right, key)
    ELSE rank

\* The while (cur) loop of rank_node: the running count.
RECURSIVE rank_loop(_, _, _, _)
rank_loop(m, rank, cur, key) ==
    IF cur # nullptr
    THEN IF ~comp(m[cur].data, key)
         THEN rank_loop(m, rank, m[cur].left, key)
         ELSE rank_loop(m, rank + (IF m[cur].left # nullptr
                                   THEN m[m[cur].left].size + 1 ELSE 1),
                        m[cur].right, key)
    ELSE rank

\* Mutant of rank_node: the count is returned for a key that is not stored too.
rank_node_always_counts(m, key) == rank_loop(m, 0, m[header].parent, key)

rank_node(m, key) ==
    LET rank == rank_loop(m, 0, m[header].parent, key)
        pre  == lower_bound_loop(m, header, m[header].parent, key)
    IN  IF pre = header \/ comp(key, m[pre].data) THEN not_present ELSE rank

\* --------------------------------------------------------- public modifiers
\* What erase(const_iterator) leaves: the memory and log of erase_node's
\* result r, and the iterator it returns.
Erased(r, next) == [m |-> r.m, next |-> next, log |-> r.log]

\* Mutant of erase: the node after pos is erased, if there is one.
erase_next_node(m, pos) ==
    IF pos # end(m)
    THEN Erased(erase_node(m, IF increment(m, pos) # end(m) THEN increment(m, pos) ELSE pos),
                increment(m, pos))
    ELSE [m |-> m, next |-> pos, log |-> <<>>]

\* erase(const_iterator pos): the successor is taken before the node goes.
erase(m, pos) ==
    IF pos # end(m)
    THEN Erased(erase_node(m, pos), increment(m, pos))
    ELSE [m |-> m, next |-> pos, log |-> <<>>]

\* erase(const KeyType& key).  first and last are of type iterator, so the
\* call erase(first++) in the loop does not select erase(const_iterator),
\* which needs a user-defined conversion, but the template
\* erase(const KeyType&) itself with KeyType = iterator, which would hand an
\* iterator to lower_bound and to the comparator: the nested call never
\* erases a node and never returns.  returns = FALSE stands for that.
erase_by_key(m, key) ==
    LET first == lower_bound_node(m, key)
        last  == upper_bound_node(m, key)
    IN  IF first # last
        THEN [m |-> m, n |-> 1, returns |-> FALSE]
        ELSE [m |-> m, n |-> 0, returns |-> TRUE]

\* One entry of the log of erase_root: the node handed to destroy_node, its
\* links at that moment, and whether its storage held a node then.
DestroyEntry(m, cur) ==
    [node |-> cur, parent |-> m[cur].parent, left |-> m[cur].left,
     right |-> m[cur].right, constructed |-> m[cur].data # indeterminate]

\* Mutant of erase_leaf: the node is unlinked and its storage is kept.
erase_leaf_keeps_storage(m, cur) ==
    IF cur = m[m[cur].parent].left
    THEN [m EXCEPT ![m[cur].parent].left = nullptr]
    ELSE [m EXCEPT ![m[cur].parent].right = nullptr]

\* The else branch of the loop of erase_root: next = cur->parent; the link
\* of next to cur is set to null; destroy_node(cur).
erase_leaf(m, cur) ==
    destroy_node(IF cur = m[m[cur].parent].left
                 THEN [m EXCEPT ![m[cur].parent].left = nullptr]
                 ELSE [m EXCEPT ![m[cur].parent].right = nullptr],
                 cur)

\* do { while (cur->left) cur = cur->left;
\*      if (cur->right) cur = cur->right; else { ...; cur = next; } }
\* while (cur != header);
\* log gets, for each destroy_node(cur), the node with the links it has at
\* that moment.
RECURSIVE erase_root_loop(_, _, _)
erase_root_loop(m, cur, log) ==
    LET low == leftmost(m, cur)
    IN  IF m[low].right # nullptr
        THEN erase_root_loop(m, m[low].right, log)
        ELSE IF m[low].parent # header
             THEN erase_root_loop(erase_leaf(m, low), m[low].parent,
                                  Append(log, DestroyEntry(m, low)))
             ELSE [m |-> erase_leaf(m, low), log |-> Append(log, DestroyEntry(m, low))]

erase_root(m) == erase_root_loop(m, m[header].parent, <<>>)

\* Mutant of clear: header->left and header->right are not reset.
clear_keeps_ends(m) ==
    IF m[header].parent # nullptr
    THEN [erase_root(m).m EXCEPT ![header].parent = nullptr]
    ELSE m

\* clear()
clear(m) ==
    IF m[header].parent # nullptr
    THEN [erase_root(m).m EXCEPT ![header].parent = nullptr,
                                 ![header].left = header,
                                 ![header].right = header]
    ELSE m

\* ---------------------------------------------------------- two tree objects
\* The member functions above are written for the tree object whose member
\* header holds the address header.  Called on the object whose member
\* header holds other_header they run the same code with this->header bound
\* to that address: the same computation on the memory with the two
\* sentinel addresses exchanged.
Exchanged(p) ==
    IF p = header THEN other_header ELSE IF p = other_header THEN header ELSE p

ExchangedNode(n) ==
    [parent |-> Exchanged(n.parent), left |-> Exchanged(n.left),
     right |-> Exchanged(n.right), size |-> n.size, data |-> n.data]

\* (The memory is a sequence of cells, Addresses being 1..2 * MaxNodes + 2;
\* the concatenation makes the result a sequence of cells as mem is.)
Flip(m) == <<>> \o [address \in Addresses |-> ExchangedNode(m[Exchanged(address)])]

\* The memory as the member functions of the object with this->header = h
\* see it, and the memory they leave as the program sees it.
Bound(h, m) == IF h = header THEN m ELSE Flip(m)

\* The address the allocator hands out of the free addresses pool.
Lowest(pool) == CHOOSE p \in pool : \A q \in pool : p <= q

\* create_header() of a new tree object: header = create_node(value_type()),
\* then its four fields.
new_header(m) ==
    [create_node(m, header, 0) EXCEPT ![header].parent = nullptr,
                                      ![header].left = header,
                                      ![header].right = header,
                                      ![header].size = 0]

\* Mutant of clone_node: the size of the copy is that of a leaf.
clone_node_leaf(m, n, src, parent) ==
    [create_node(m, n, m[src].data) EXCEPT ![n].parent = parent,
                                           ![n].left = nullptr,
                                           ![n].right = nullptr,
                                           ![n].size = 1]

\* n = create_node(src->data); n->parent = parent; n->left = nullptr;
\* n->right = nullptr; n->size = src->size;
clone_node(m, n, src, parent) ==
    [create_node(m, n, m[src].data) EXCEPT ![n].parent = parent,
                                           ![n].left = nullptr,
                                           ![n].right = nullptr,
                                           ![n].size = m[src].size]

\* The do { ... } while (src != t) loop of copy_node.  pool is the set of
\* addresses the allocator can still hand out; create_node throws when it
\* is empty, and the memory is then left as it is.
RECURSIVE copy_loop(_, _, _, _, _, _)
RECURSIVE copy_while(_, _, _, _, _, _)
copy_loop(m, t, src, dst, flag, pool) ==
    IF flag /\ m[src].left # nullptr
    THEN \* copies the left child node
         IF pool = {} THEN [m |-> m, thrown |-> TRUE]
         ELSE copy_while([clone_node(m, Lowest(pool), m[src].left, dst)
                              EXCEPT ![dst].left = Lowest(pool)],
                         t, m[src].left, Lowest(pool), flag, pool \ {Lowest(pool)})
    ELSE IF flag /\ m[src].right # nullptr
    THEN \* copies the right child node
         IF pool = {} THEN [m |-> m, thrown |-> TRUE]
         ELSE copy_while([clone_node(m, Lowest(pool), m[src].right, dst)
                              EXCEPT ![dst].right = Lowest(pool)],
                         t, m[src].right, Lowest(pool), flag, pool \ {Lowest(pool)})
    ELSE IF m[m[src].parent].right # nullptr /\ src # m[m[src].parent].right
    THEN \* copies the sibling node
         IF pool = {} THEN [m |-> m, thrown |-> TRUE]
         ELSE copy_while([clone_node(m, Lowest(pool), m[m[src].parent].right, m[dst].parent)
                              EXCEPT ![m[dst].parent].right = Lowest(pool)],
                         t, m[m[src].parent].right, Lowest(pool), TRUE,
                         pool \ {Lowest(pool)})
    ELSE \* return to parent node
         copy_while(m, t, m[src].parent, m[dst].parent, FALSE, pool)

copy_while(m, t, src, dst, flag, pool) ==
    IF src # t THEN copy_loop(m, t, src, dst, flag, pool)
    ELSE [m |-> m, thrown |-> FALSE]

\* header->left = leftmost(header->parent);
\* header->right = rightmost(header->parent);
copy_ends(r) ==
    IF r.thrown THEN r
    ELSE [m |-> [r.m EXCEPT ![header].left = leftmost(r.m, r.m[header].parent),
                            ![header].right = rightmost(r.m, r.m[header].parent)],
          thrown |-> FALSE]

\* copy_node(t): the root is copied first, then the loop, then the ends.
copy_node(m, t, pool) ==
    IF pool = {} THEN [m |-> m, thrown |-> TRUE]
    ELSE copy_ends(copy_loop([clone_node(m, Lowest(pool), t, header)
                                  EXCEPT ![header].parent = Lowest(pool)],
                             t, t, Lowest(pool), TRUE, pool \ {Lowest(pool)}))

\* Mutant of swap: the member header is assigned and not exchanged.
swap_assigns(hs, x, y) == IF x # y THEN [hs EXCEPT ![x] = hs[y]] ELSE hs

\* x.swap(y), hs the member header of each tree object:
\* if (this != &rhs) std::swap(header, rhs.header);  (comp has no state)
swap(hs, x, y) == IF x # y THEN [hs EXCEPT ![x] = hs[y], ![y] = hs[x]] ELSE hs

\* sb_tree(tree_type&& other) for a new object b and other = a:
\* create_header(); swap(other);
move_constructor(hs) == swap([hs EXCEPT !.b = other_header], "b", "a")

\* Mutant of copy_constructor: the new sentinel takes the nodes of the other.
copy_constructor_shallow(m, pool) ==
    [m |-> [new_header(m) EXCEPT ![header].parent = m[other_header].parent,
                                 ![header].left = m[other_header].left,
                                 ![header].right = m[other_header].right],
     thrown |-> FALSE]

\* sb_tree(const tree_type& other), other.header = other_header:
\* create_header(); if (other.header->parent) copy_node(other.header->parent);
copy_constructor(m, pool) ==
    IF m[other_header].parent # nullptr
    THEN copy_node(new_header(m), m[other_header].parent, pool)
    ELSE [m |-> new_header(m), thrown |-> FALSE]

\* -------------------------------------------------------------------- state
\* A run is any sequence of calls on one tree.  A call is either made
\* untraced or it is the traced call: the traced call is written to last,
\* with the memory before it in old, and the run ends with it, save for one
\* erase of the position a traced insert returned.
VARIABLES
    mem,      \* the node memory: address -> [parent, left, right, size, data]
    alloc,    \* the addresses of the nodes created and not destroyed
    old,      \* mem before the traced call (mem itself while none is traced)
    last,     \* the traced call: its name, arguments and results
    running,  \* FALSE once a call has failed to return
    header_of \* the member header of the tree objects a and b (nullptr: no object)

vars == <<mem, alloc, old, last, running, header_of>>

NoCall == [op |-> "none", key |-> 0, pos |-> nullptr, node |-> nullptr,
           ok |-> TRUE, n |-> 0, log |-> <<>>, tree |-> "a",
           thrown |-> "none", rhs |-> "a", state |-> sb_tree_state_root]

Init ==
    /\ mem = create_header
    /\ alloc = {}
    /\ old = create_header
    /\ last = NoCall
    /\ running = TRUE
    /\ header_of = [a |-> header, b |-> nullptr]

\* The call is traced or not.
Trace(call) ==
    \E traced \in BOOLEAN :
        /\ last' = IF traced THEN call ELSE NoCall
        /\ old'  = IF traced THEN mem ELSE mem'

\* A further call can be made.
Callable == running /\ last = NoCall

\* The address the next create_node returns (nullptr: none is free).
NextNode == IF NodeIds \ alloc = {} THEN nullptr ELSE NewNode(alloc)

InsertEqual(v) ==
    /\ Callable
    /\ Cardinality(alloc) < MaxNodes
    /\ LET r == insert_equal_node(mem, NextNode, v)
       IN  /\ mem' = r.m
           /\ alloc' = alloc \cup {r.node}
           /\ Trace([NoCall EXCEPT !.op = "insert_equal", !.key = v,
                                   !.node = r.node, !.ok = TRUE, !.log = r.log])
    /\ UNCHANGED <<running, header_of>>

InsertUnique(v) ==
    /\ Callable
    /\ Cardinality(alloc) < MaxNodes \/ find_node(mem, v) # header
    /\ LET r == insert_unique_node(mem, NextNode, v)
       IN  /\ mem' = r.m
           /\ alloc' = IF r.ok THEN alloc \cup {r.node} ELSE alloc
           /\ Trace([NoCall EXCEPT !.op = "insert_unique", !.key = v,
                                   !.node = r.node, !.ok = r.ok, !.log = r.log])
    /\ UNCHANGED <<running, header_of>>

Erase(pos) ==
    /\ Callable
    /\ LET r == erase(mem, pos)
       IN  /\ mem' = r.m
           /\ alloc' = alloc \ {pos}
           /\ Trace([NoCall EXCEPT !.op = "erase", !.pos = pos,
                                   !.node = r.next, !.log = r.log])
    /\ UNCHANGED <<running, header_of>>

\* erase(pos) with pos the iterator the traced insert returned.
EraseInserted ==
    /\ running
    /\ last.op \in {"insert_equal", "insert_unique"}
    /\ last.ok
    /\ LET r == erase(mem, last.node)
       IN  /\ mem' = r.m
           /\ alloc' = alloc \ {last.node}
           /\ last' = [NoCall EXCEPT !.op = "erase_inserted", !.key = last.key,
                                     !.pos = last.node, !.node = r.next, !.log = r.log]
    /\ UNCHANGED <<old, running, header_of>>

EraseKey(key) ==
    /\ Callable
    /\ LET r == erase_by_key(mem, key)
       IN  /\ mem' = r.m
           /\ running' = r.returns
           /\ Trace([NoCall EXCEPT !.op = "erase_key", !.key = key,
                                   !.n = r.n, !.ok = r.returns])
    /\ UNCHANGED <<alloc, header_of>>

At(key) ==
    /\ Callable
    /\ LET r == at(mem, key)
       IN  /\ mem' = mem
           /\ running' = r.returns
           /\ Trace([NoCall EXCEPT !.op = "at", !.key = key, !.node = r.node,
                                   !.ok = r.returns, !.thrown = r.thrown])
    /\ UNCHANGED <<alloc, header_of>>

\* The storage at p holds a constructed payload (create_node sets it,
\* destroy_node ends it).
Constructed(m, p) == m[p].data # indeterminate

Clear ==
    /\ Callable
    /\ mem' = clear(mem)
    /\ alloc' = {p \in alloc : Constructed(clear(mem), p)}
    /\ Trace([NoCall EXCEPT !.op = "clear",
                            !.log = IF empty(mem) THEN <<>> ELSE erase_root(mem).log])
    /\ UNCHANGED <<running, header_of>>

\* sb_tree b(a): the one copy of a run, always traced.
CopyConstruct ==
    /\ Callable
    /\ mem' = Flip(copy_constructor(Flip(mem), CloneIds).m)
    /\ header_of' = [a |-> header, b |-> other_header]
    /\ last' = [NoCall EXCEPT !.op = "copy", !.tree = "b"]
    /\ old' = mem
    /\ UNCHANGED <<alloc, running>>

\* The calls that follow the copy construction: up to MaxLater of them, all
\* on the same one of the two tree objects.  old keeps the memory as the
\* copy construction left it.
\* insert_equal(value) while the allocator has no storage left.
InsertEqualFails(v) ==
    /\ Callable
    /\ mem' = insert_equal_node_bad_alloc(mem, v).m
    /\ last' = [NoCall EXCEPT !.op = "insert_equal_bad_alloc", !.key = v,
                              !.ok = FALSE, !.thrown = "bad_alloc"]
    /\ old' = mem
    /\ UNCHANGED <<alloc, running, header_of>>

\* insert_unique(value) while the allocator has no storage left.
InsertUniqueFails(v) ==
    /\ Callable
    /\ insert_unique_node_bad_alloc(mem, v).thrown
    /\ mem' = insert_unique_node_bad_alloc(mem, v).m
    /\ last' = [NoCall EXCEPT !.op = "insert_unique_bad_alloc", !.key = v,
                              !.ok = FALSE, !.thrown = "bad_alloc"]
    /\ old' = mem
    /\ UNCHANGED <<alloc, running, header_of>>

\* The first k addresses of the storage of the clones.
FirstClones(k) == {p \in CloneIds : p < MaxNodes + 3 + k}

\* sb_tree b(a) with an allocator that hands out k nodes after the sentinel
\* and then fails.  The constructor leaves by the exception, so no object b
\* comes to exist and no destructor runs for what was built.
CopyFails(k) ==
    /\ Callable
    /\ k < size(mem)
    /\ mem' = Flip(copy_constructor(Flip(mem), FirstClones(k)).m)
    /\ last' = [NoCall EXCEPT !.op = "copy_bad_alloc", !.tree = "b", !.n = k,
                              !.ok = FALSE, !.thrown = "bad_alloc"]
    /\ old' = mem
    /\ UNCHANGED <<alloc, running, header_of>>

LaterCallable(x) ==
    /\ running
    /\ \/ last.op = "copy"
       \/ last.op = "later" /\ last.tree = x /\ last.n < MaxLater

Later(x) ==
    /\ last' = [NoCall EXCEPT !.op = "later", !.tree = x,
                              !.n = IF last.op = "later" THEN last.n + 1 ELSE 1]
    /\ old' = IF last.op = "copy" THEN mem ELSE old
    /\ alloc' = {p \in NodeIds : Constructed(mem', p)}
    /\ UNCHANGED <<running, header_of>>

\* The addresses the allocator can hand out to the tree with sentinel h.
FreeFor(h, m) ==
    {p \in IF h = header THEN NodeIds ELSE CloneIds : ~Constructed(m, p)}

LaterInsertEqual(x, v) ==
    /\ LaterCallable(x)
    /\ size(Bound(header_of[x], mem)) < MaxNodes
    /\ mem' = Bound(header_of[x],
                    insert_equal_node(Bound(header_of[x], mem),
                                      Lowest(FreeFor(header_of[x], mem)), v).m)
    /\ Later(x)

LaterInsertUnique(x, v) ==
    /\ LaterCallable(x)
    /\ size(Bound(header_of[x], mem)) < MaxNodes
    /\ mem' = Bound(header_of[x],
                    insert_unique_node(Bound(header_of[x], mem),
                                       Lowest(FreeFor(header_of[x], mem)), v).m)
    /\ Later(x)

LaterErase(x, pos) ==
    /\ LaterCallable(x)
    /\ pos \in IF header_of[x] = header THEN NodeIds ELSE CloneIds
    /\ Constructed(mem, pos)
    /\ mem' = Bound(header_of[x], erase(Bound(header_of[x], mem), pos).m)
    /\ Later(x)

LaterClear(x) ==
    /\ LaterCallable(x)
    /\ mem' = Bound(header_of[x], clear(Bound(header_of[x], mem)))
    /\ Later(x)

\* primitive_iterator it = pbegin(): node and state keep the iterator, log
\* the positions it has had.
PBegin ==
    /\ Callable
    /\ last' = [NoCall EXCEPT !.op = "pwalk", !.node = pbegin(mem).node,
                              !.state = pbegin(mem).state, !.log = <<pbegin(mem)>>]
    /\ old' = mem
    /\ UNCHANGED <<mem, alloc, running, header_of>>

\* ++it, while it != pend().
PIncrement ==
    /\ running
    /\ last.op = "pwalk"
    /\ last.node # pend(mem).node
    /\ LET it == primitive_increment(mem, [node |-> last.node, state |-> last.state])
       IN  last' = [last EXCEPT !.node = it.node, !.state = it.state,
                                !.log = Append(@, it)]
    /\ UNCHANGED <<mem, alloc, old, running, header_of>>

\* x.swap(y) as a call that follows a copy construction; node and pos keep
\* the member header of x and of y before the call.
Swap(x, y) ==
    /\ LaterCallable(x)
    /\ header_of' = swap(header_of, x, y)
    /\ last' = [NoCall EXCEPT !.op = "swap", !.tree = x, !.rhs = y,
                              !.node = header_of[x], !.pos = header_of[y]]
    /\ old' = mem
    /\ UNCHANGED <<mem, alloc, running>>

\* The same x.swap(y) once more.
SwapAgain ==
    /\ running
    /\ last.op = "swap"
    /\ header_of' = swap(header_of, last.tree, last.rhs)
    /\ last' = [last EXCEPT !.op = "swap_twice"]
    /\ UNCHANGED <<mem, alloc, old, running>>

\* sb_tree b(std::move(a)).
MoveConstruct ==
    /\ Callable
    /\ mem' = Flip(new_header(Flip(mem)))
    /\ header_of' = move_constructor(header_of)
    /\ last' = [NoCall EXCEPT !.op = "move", !.tree = "b", !.rhs = "a",
                              !.node = header_of.a]
    /\ old' = mem
    /\ UNCHANGED <<alloc, running>>

Next ==
    \/ \E v \in Keys : InsertEqual(v)
    \/ \E v \in Keys : InsertUnique(v)
    \/ \E pos \in alloc \cup {header} : Erase(pos)
    \/ EraseInserted
    \/ \E key \in Keys : EraseKey(key)
    \/ \E key \in Keys : At(key)
    \/ Clear
    \/ CopyConstruct
    \/ \E v \in Keys : InsertEqualFails(v)
    \/ \E v \in Keys : InsertUniqueFails(v)
    \/ \E k \in 0..(MaxNodes - 1) : CopyFails(k)
    \/ \E x \in {"a", "b"}, v \in Keys : LaterInsertEqual(x, v)
    \/ \E x \in {"a", "b"}, v \in Keys : LaterInsertUnique(x, v)
    \/ \E x \in {"a", "b"}, pos \in NodeIds \cup CloneIds : LaterErase(x, pos)
    \/ \E x \in {"a", "b"} : LaterClear(x)
    \/ \E x \in {"a", "b"}, y \in {"a", "b"} : Swap(x, y)
    \/ SwapAgain
    \/ MoveConstruct
    \/ PBegin
    \/ PIncrement

Spec == Init /\ [][Next]_vars

\* ------------------------------------------------------ a seventeen-node run
\* A second specification, for trees larger than MaxNodes: one tree, built by
\* insert_equal of the values of Script in this order into storage of its
\* own; at any point one erase(pos) of any of its nodes ends the run.
Script == <<13, 12, 4, 16, 15, 6, 7, 3, 8, 2, 11, 14, 17, 10, 5, 9, 1>>

ScriptIds == (2 * MaxNodes + 3)..(2 * MaxNodes + 2 + Len(Script))

ScriptInit ==
    /\ mem = [p \in Addresses \cup ScriptIds |->
                 IF p \in Addresses THEN create_header[p]
                 ELSE create_header[other_header]]
    /\ alloc = {}
    /\ old = mem
    /\ last = NoCall
    /\ running = TRUE
    /\ header_of = [a |-> header, b |-> nullptr]

\* insert_equal(Script[n + 1]) on the tree of the first n values.
ScriptInsert ==
    /\ last.op \in {"none", "insert_equal"}
    /\ Cardinality(alloc) < Len(Script)
    /\ LET p == CHOOSE q \in ScriptIds \ alloc : \A o \in ScriptIds \ alloc : q <= o
           v == Script[Cardinality(alloc) + 1]
           r == insert_equal_node(mem, p, v)
       IN  /\ mem' = r.m
           /\ alloc' = alloc \cup {r.node}
           /\ last' = [NoCall EXCEPT !.op = "insert_equal", !.key = v,
                                     !.node = r.node, !.ok = TRUE, !.log = r.log]
    /\ old' = mem
    /\ UNCHANGED <<running, header_of>>

\* erase(pos) on the tree of the first n values.
ScriptErase(pos) ==
    /\ last.op \in {"none", "insert_equal"}
    /\ LET r == erase(mem, pos)
       IN  /\ mem' = r.m
           /\ alloc' = alloc \ {pos}
           /\ last' = [NoCall EXCEPT !.op = "erase", !.pos = pos,
                                     !.node = r.next, !.log = r.log]
    /\ old' = mem
    /\ UNCHANGED <<running, header_of>>

ScriptNext ==
    \/ ScriptInsert
    \/ \E pos \in alloc : ScriptErase(pos)

ScriptSpec == ScriptInit /\ [][ScriptNext]_vars

\* ------------------------------------------------- reference: the node graph
\* The nodes of the subtree of t in in-order, by structural recursion over
\* the child links alone (it stops at anything that is not a node address,
\* and at depth fuel).
RECURSIVE InorderOf(_, _, _)
InorderOf(m, t, fuel) ==
    IF t \notin NodeIds \cup CloneIds \/ fuel = 0 THEN <<>>
    ELSE InorderOf(m, m[t].left, fuel - 1) \o <<t>> \o InorderOf(m, m[t].right, fuel - 1)

Inorder(m) == InorderOf(m, m[header].parent, MaxNodes + 1)

\* The payloads of a sequence of nodes.
Values(m, seq) == [i \in 1..Len(seq) |-> m[seq[i]].data]

InorderValues(m) == Values(m, Inorder(m))

\* Equivalence under the comparator.
Equivalent(a, b) == ~comp(a, b) /\ ~comp(b, a)

NonDecreasing(vals) == \A i \in 1..(Len(vals) - 1) : ~comp(vals[i + 1], vals[i])

NonIncreasing(vals) == \A i \in 1..(Len(vals) - 1) : ~comp(vals[i], vals[i + 1])

Reverse(seq) == [i \in 1..Len(seq) |-> seq[Len(seq) + 1 - i]]

\* A rebalancer call of the traced call's climb rotated at a real node.
Rotated == \E i \in 1..Len(last.log) : last.log[i].changed /\ last.log[i].node # header

\* ------------------------------------------------------------------ claims

\* C1: after any sequence of insert_equal, insert_unique and erase, every
\* non-sentinel node t has size(t.left) >= size(t.right.left),
\* size(t.left) >= size(t.right.right), size(t.right) >= size(t.left.left)
\* and size(t.right) >= size(t.left.right), an absent node counting 0.
WeightBalanced(m, t) ==
    LET l == m[t].left
        r == m[t].right
    IN  /\ r # nullptr => /\ size_or_zero(m, l) >= size_or_zero(m, m[r].left)
                          /\ size_or_zero(m, l) >= size_or_zero(m, m[r].right)
        /\ l # nullptr => /\ size_or_zero(m, r) >= size_or_zero(m, m[l].left)
                          /\ size_or_zero(m, r) >= size_or_zero(m, m[l].right)

C1_WeightBalance == \A t \in alloc : WeightBalanced(mem, t)

\* An erase whose climb rotated, leaving at least three nodes.
C1_Witness == last.op = "erase" /\ Rotated /\ Cardinality(alloc) >= 3

\* C2: after any sequence of insert_equal, insert_unique and erase, every
\* non-sentinel node t has size(t) = size(t.left) + size(t.right) + 1, which
\* is the number of nodes of its subtree.
C2_SizeIsSubtreeCount ==
    \A t \in alloc :
        /\ mem[t].size = size_or_zero(mem, mem[t].left)
                         + size_or_zero(mem, mem[t].right) + 1
        /\ mem[t].size = Len(InorderOf(mem, t, MaxNodes + 1))

\* An erase of a node with two children, leaving at least three nodes.
C2_Witness ==
    /\ last.op = "erase"
    /\ last.pos # header
    /\ old[last.pos].left # nullptr
    /\ old[last.pos].right # nullptr
    /\ Cardinality(alloc) >= 3

\* C3: walking forward from begin() with operator++ reaches end() after
\* exactly size() steps, and the values visited are non-decreasing under
\* the comparator.
RECURSIVE WalkForward(_, _, _)
WalkForward(m, node, fuel) ==
    IF node = end(m) \/ fuel = 0 THEN <<>>
    ELSE <<node>> \o WalkForward(m, increment(m, node), fuel - 1)

ForwardWalk(m) == WalkForward(m, begin(m), MaxNodes + 2)

C3_ForwardWalk ==
    /\ Len(ForwardWalk(mem)) = size(mem)
    /\ NonDecreasing(Values(mem, ForwardWalk(mem)))

\* A full tree whose first node is a new left child the traced insert made.
C3_Witness ==
    /\ last.op \in {"insert_equal", "insert_unique"}
    /\ last.ok
    /\ begin(mem) = last.node
    /\ Cardinality(alloc) = MaxNodes

\* C4: decrementing end() yields the greatest element, decrementing any
\* element but the first (the root's element included) yields its in-order
\* predecessor, and the walk back from end() visits all size() elements in
\* non-increasing order and arrives at begin().
RECURSIVE WalkBackward(_, _, _)
WalkBackward(m, node, fuel) ==
    IF node = begin(m) \/ node = nullptr \/ fuel = 0 THEN <<>>
    ELSE LET prev == decrement(m, node)
         IN  <<prev>> \o WalkBackward(m, prev, fuel - 1)

BackwardWalk(m) == WalkBackward(m, end(m), MaxNodes + 2)

C4_BackwardMirror ==
    LET seq == Inorder(mem)
    IN  /\ seq # <<>> => decrement(mem, end(mem)) = seq[Len(seq)]
        /\ \A i \in 2..Len(seq) : decrement(mem, seq[i]) = seq[i - 1]
        /\ BackwardWalk(mem) = Reverse(seq)
        /\ NonIncreasing(Values(mem, Reverse(seq)))

\* C5: for every k in [0, size()): rank(*select(k)) = k if no two stored
\* keys are equivalent, and otherwise the in-order index of the first
\* element equivalent to *select(k).
NoDuplicates(m) ==
    LET vals == InorderValues(m)
    IN  \A i, j \in 1..Len(vals) : i # j => ~Equivalent(vals[i], vals[j])

\* The 0-based in-order index of the first element equivalent to v.
FirstEquivalent(m, v) ==
    LET vals == InorderValues(m)
        hits == {i \in 1..Len(vals) : Equivalent(vals[i], v)}
    IN  (CHOOSE i \in hits : \A j \in hits : i <= j) - 1

C5_RankOfSelect ==
    \A k \in 0..(size(mem) - 1) :
        LET t == select_node(mem, k)
        IN  /\ t # header
            /\ IF NoDuplicates(mem)
               THEN rank_node(mem, mem[t].data) = k
               ELSE rank_node(mem, mem[t].data) = FirstEquivalent(mem, mem[t].data)

\* A full tree with duplicates, where some rank(*select(k)) is not k.
C5_Witness ==
    /\ Cardinality(alloc) = MaxNodes
    /\ ~NoDuplicates(mem)
    /\ \E k \in 1..(size(mem) - 1) :
           rank_node(mem, mem[select_node(mem, k)].data) < k

\* C6: insert_unique(v) on a tree that stores an element equivalent to v
\* returns (an existing equivalent element, false) and changes nothing:
\* same size(), same in-order sequence, no field of any node or of the
\* sentinel modified.
HasEquivalent(m, v) ==
    \E i \in 1..Len(Inorder(m)) : Equivalent(m[Inorder(m)[i]].data, v)

C6_DuplicateUniqueInsert ==
    (last.op = "insert_unique" /\ HasEquivalent(old, last.key)) =>
        /\ ~last.ok
        /\ last.node \in {Inorder(old)[i] : i \in 1..Len(Inorder(old))}
        /\ Equivalent(old[last.node].data, last.key)
        /\ size(mem) = size(old)
        /\ Inorder(mem) = Inorder(old)
        /\ mem = old

\* A rejected insert_unique whose equivalent element lies below the root.
C6_Witness ==
    /\ last.op = "insert_unique"
    /\ HasEquivalent(old, last.key)
    /\ last.node # old[header].parent
    /\ size(old) >= 3

\* C7: insert_equal(v) always succeeds: size() grows by one and the new
\* in-order sequence is the old one with v inserted right after the last
\* element that is not greater than v, the other elements keeping their
\* order.
\* The number of elements of m that are not greater than v.
NotGreaterCount(m, v) ==
    Cardinality({i \in 1..Len(Inorder(m)) : ~comp(v, m[Inorder(m)[i]].data)})

InsertedAt(seq, k, x) == SubSeq(seq, 1, k) \o <<x>> \o SubSeq(seq, k + 1, Len(seq))

C7_InsertEqualPosition ==
    last.op = "insert_equal" =>
        LET k == NotGreaterCount(old, last.key)
        IN  /\ last.ok
            /\ size(mem) = size(old) + 1
            /\ mem[last.node].data = last.key
            /\ \A i \in 1..k : ~comp(last.key, old[Inorder(old)[i]].data)
            /\ Inorder(mem) = InsertedAt(Inorder(old), k, last.node)
            /\ \A i \in 1..Len(Inorder(old)) :
                   mem[Inorder(old)[i]].data = old[Inorder(old)[i]].data

\* An insert_equal of a value already stored, with a greater one stored too.
C7_Witness ==
    /\ last.op = "insert_equal"
    /\ HasEquivalent(old, last.key)
    /\ NotGreaterCount(old, last.key) < size(old)

\* C8: inserting v (insert_equal, or a successful insert_unique) and then
\* erasing the returned position restores the prior size() and the prior
\* in-order sequence of values.
C8_InsertThenErase ==
    last.op = "erase_inserted" =>
        /\ size(mem) = size(old)
        /\ InorderValues(mem) = InorderValues(old)

\* A value already stored was inserted into a tree one short of full, and
\* erased again.
C8_Witness ==
    /\ last.op = "erase_inserted"
    /\ HasEquivalent(old, last.key)
    /\ size(old) = MaxNodes - 1

\* C9: erase(key) removes every stored element equivalent to key and no
\* other, returns their number (0 when there is none), leaves
\* find(key) = end() and the old in-order sequence without those elements.
EquivalentCount(m, v) ==
    Cardinality({i \in 1..Len(Inorder(m)) : Equivalent(m[Inorder(m)[i]].data, v)})

RECURSIVE Without(_, _)
Without(vals, v) ==
    IF vals = <<>> THEN <<>>
    ELSE IF Equivalent(Head(vals), v) THEN Without(Tail(vals), v)
    ELSE <<Head(vals)>> \o Without(Tail(vals), v)

C9_EraseByKey ==
    last.op = "erase_key" =>
        /\ running
        /\ last.n = EquivalentCount(old, last.key)
        /\ find_node(mem, last.key) = end(mem)
        /\ InorderValues(mem) = Without(InorderValues(old), last.key)

\* C10: select(k) is the element at 0-indexed in-order position k when
\* k < size(), and end() when k >= size(), the empty tree included.
C10_Select ==
    \A k \in 0..(MaxNodes + 1) :
        IF k < size(mem)
        THEN select_node(mem, k) = Inorder(mem)[k + 1]
        ELSE select_node(mem, k) = end(mem)

\* A full tree whose root has both children.
C10_Witness ==
    /\ size(mem) = MaxNodes
    /\ mem[mem[header].parent].left # nullptr
    /\ mem[mem[header].parent].right # nullptr

\* The keys the queries are asked for: those a tree can store, one below
\* them and one above.
Probes == 0..(MaxKey + 1)

\* The number of elements of m that are less than v.
LessCount(m, v) ==
    Cardinality({i \in 1..Len(Inorder(m)) : comp(m[Inorder(m)[i]].data, v)})

\* C11: rank(key) is the number of stored elements strictly less than key
\* when an element equivalent to key is stored, and the not-present value
\* size_type(-1) when none is, the empty tree included.
C11_Rank ==
    \A key \in Probes :
        rank_node(mem, key) = IF HasEquivalent(mem, key)
                              THEN LessCount(mem, key) ELSE not_present

\* A full tree that stores a key twice with two elements below it, and
\* lacks a key that lies between two stored ones.
C11_Witness ==
    /\ size(mem) = MaxNodes
    /\ \E key \in Keys : EquivalentCount(mem, key) >= 2 /\ rank_node(mem, key) >= 2
    /\ \E key \in Keys :
           /\ ~HasEquivalent(mem, key)
           /\ LessCount(mem, key) >= 1
           /\ NotGreaterCount(mem, key) < size(mem)
           /\ rank_node(mem, key) = not_present

\* C12: find(key) is end() if and only if no stored element is equivalent
\* to key; otherwise it is the first element in in-order equivalent to key,
\* never the sentinel.
C12_Find ==
    \A key \in Probes :
        IF HasEquivalent(mem, key)
        THEN /\ find_node(mem, key) # header
             /\ find_node(mem, key) = Inorder(mem)[FirstEquivalent(mem, key) + 1]
        ELSE find_node(mem, key) = end(mem)

\* A key stored twice below the root is found, and a key that lies between
\* two stored ones is not.
C12_Witness ==
    /\ \E key \in Keys :
           /\ EquivalentCount(mem, key) >= 2
           /\ find_node(mem, key) # mem[header].parent
           /\ find_node(mem, key) # header
    /\ \E key \in Keys :
           /\ ~HasEquivalent(mem, key)
           /\ LessCount(mem, key) >= 1
           /\ NotGreaterCount(mem, key) < size(mem)
           /\ find_node(mem, key) = header

\* The node at 1-based in-order position i, end() past the last one.
InorderAt(m, i) == IF i <= Len(Inorder(m)) THEN Inorder(m)[i] ELSE end(m)

\* The nodes operator++ visits from first up to last, last excluded.
RECURSIVE RangeWalk(_, _, _, _)
RangeWalk(m, first, to, fuel) ==
    IF first = to \/ fuel = 0 THEN <<>>
    ELSE <<first>> \o RangeWalk(m, increment(m, first), to, fuel - 1)

\* C13: lower_bound(key) is the first in-order element not less than key,
\* upper_bound(key) the first one greater than key, each end() when there
\* is none; the range [lower_bound(key), upper_bound(key)) is exactly the
\* run of the elements equivalent to key.
C13_Bounds ==
    \A key \in Probes :
        LET lo  == lower_bound_node(mem, key)
            hi  == upper_bound_node(mem, key)
            run == RangeWalk(mem, lo, hi, MaxNodes + 2)
        IN  /\ lo = InorderAt(mem, LessCount(mem, key) + 1)
            /\ hi = InorderAt(mem, NotGreaterCount(mem, key) + 1)
            /\ run = SubSeq(Inorder(mem), LessCount(mem, key) + 1,
                            NotGreaterCount(mem, key))
            /\ Len(run) = EquivalentCount(mem, key)
            /\ \A i \in 1..Len(run) : Equivalent(mem[run[i]].data, key)

\* A key stored twice with a greater element after its run, and a key not
\* stored whose two bounds are the same element, neither the first nor end().
C13_Witness ==
    /\ \E key \in Keys :
           /\ EquivalentCount(mem, key) >= 2
           /\ upper_bound_node(mem, key) # end(mem)
    /\ \E key \in Keys :
           /\ ~HasEquivalent(mem, key)
           /\ lower_bound_node(mem, key) = upper_bound_node(mem, key)
           /\ lower_bound_node(mem, key) \notin {begin(mem), end(mem)}

\* C14: in every state reachable by insert, erase and clear the sentinel is
\* consistent with the tree: when the tree is empty header.parent is null
\* and header.left = header.right = header; otherwise header.parent is the
\* root, root.parent = header, header.left is the in-order first node,
\* header.right the in-order last one, and header.parent.size is the number
\* of stored elements, which size() returns.
C14_SentinelConsistent ==
    IF alloc = {}
    THEN /\ mem[header].parent = nullptr
         /\ mem[header].left = header
         /\ mem[header].right = header
         /\ empty(mem)
         /\ size(mem) = 0
    ELSE /\ mem[header].parent \in alloc
         /\ mem[mem[header].parent].parent = header
         /\ Len(Inorder(mem)) = Cardinality(alloc)
         /\ mem[header].left = Inorder(mem)[1]
         /\ mem[header].right = Inorder(mem)[Len(Inorder(mem))]
         /\ mem[mem[header].parent].size = Cardinality(alloc)
         /\ ~empty(mem)
         /\ size(mem) = Cardinality(alloc)

\* A full tree was cleared.
C14_Witness == last.op = "clear" /\ size(old) = MaxNodes /\ alloc = {}

\* The storage that holds a node: created and not destroyed.
Live(m) == {p \in NodeIds : Constructed(m, p)}

\* The nodes that can be reached from the sentinel.
Reachable(m) == {Inorder(m)[i] : i \in 1..Len(Inorder(m))}

\* C15: after a tree is built by inserts and every element is then erased
\* one at a time, in any order, the tree is in the empty state again
\* (header.parent null, header.left = header.right = header, size() = 0)
\* and every node created has been destroyed exactly once: no node is
\* leaked, none is destroyed twice, no destroyed node can still be reached.
C15_EraseAll ==
    /\ Live(mem) = alloc
    /\ Reachable(mem) = Live(mem)
    /\ alloc = {} =>
           /\ \A p \in NodeIds \cup {header} : mem[p] = create_header[p]
           /\ mem[header].parent = nullptr
           /\ mem[header].left = header
           /\ mem[header].right = header
           /\ size(mem) = 0
    /\ (last.op = "erase" /\ last.pos # header) =>
           /\ Constructed(old, last.pos)
           /\ Live(mem) = Live(old) \ {last.pos}

\* The last element was erased, and it is one that was created when the
\* tree was full: MaxNodes elements were inserted and all of them erased.
C15_Witness ==
    /\ last.op = "erase"
    /\ last.pos = MaxNodes
    /\ alloc = {}

\* The nodes of the tree whose sentinel is at h, in in-order.
InorderFrom(m, h) == InorderOf(m, m[h].parent, MaxNodes + 1)

\* The subtree of c in mc is a node-for-node copy of the subtree of s in ms:
\* the same payload, size field and child presence, the parent of the copy
\* being pc.
RECURSIVE SameShape(_, _, _, _, _, _)
SameShape(ms, s, mc, c, pc, fuel) ==
    IF s = nullptr \/ c = nullptr \/ fuel = 0 THEN s = nullptr /\ c = nullptr
    ELSE /\ c \in CloneIds
         /\ mc[c].data = ms[s].data
         /\ mc[c].size = ms[s].size
         /\ mc[c].parent = pc
         /\ SameShape(ms, ms[s].left, mc, mc[c].left, c, fuel - 1)
         /\ SameShape(ms, ms[s].right, mc, mc[c].right, c, fuel - 1)

\* C16: copy construction yields a tree with the same in-order sequence of
\* values and the same shape: corresponding nodes have the same payload,
\* the same size field and the same child presence, the parent links
\* mirror the source, and the clone's header.left / header.right are its
\* leftmost / rightmost nodes.
C16_CopyShape ==
    last.op = "copy" =>
        LET seq == InorderFrom(mem, other_header)
        IN  /\ Values(mem, seq) = InorderValues(old)
            /\ SameShape(old, old[header].parent, mem, mem[other_header].parent,
                         other_header, MaxNodes + 1)
            /\ IF seq = <<>>
               THEN /\ mem[other_header].parent = nullptr
                    /\ mem[other_header].left = other_header
                    /\ mem[other_header].right = other_header
               ELSE /\ mem[other_header].left = seq[1]
                    /\ mem[other_header].right = seq[Len(seq)]

\* The copy of a full tree whose root has two children, one of them with a
\* child of its own.
C16_Witness ==
    /\ last.op = "copy"
    /\ size(old) = MaxNodes
    /\ old[old[header].parent].left # nullptr
    /\ old[old[header].parent].right # nullptr
    /\ Len(InorderFrom(mem, other_header)) = MaxNodes

\* The nodes that can be reached from the sentinel at h.
ReachableFrom(m, h) == {InorderFrom(m, h)[i] : i \in 1..Len(InorderFrom(m, h))}

\* The sentinel of the tree object x and of the other one.
OtherOf(x) == IF x = "a" THEN "b" ELSE "a"

\* C17: a copy-constructed tree shares no node with its source: no node is
\* reachable from both sentinels, copying leaves the source unchanged, and
\* any later sequence of insert / erase / clear on one of the two trees
\* leaves every node and the sentinel of the other tree unchanged.
C17_CopyIndependent ==
    /\ last.op = "copy" =>
           /\ \A p \in NodeIds \cup {header} : mem[p] = old[p]
           /\ ReachableFrom(mem, header) = ReachableFrom(old, header)
           /\ ReachableFrom(mem, other_header) \cap ReachableFrom(mem, header) = {}
           /\ \A p \in ReachableFrom(mem, other_header) : ~Constructed(old, p)
    /\ last.op = "later" =>
           LET h == header_of[OtherOf(last.tree)]
           IN  /\ mem[h] = old[h]
               /\ ReachableFrom(mem, h) = ReachableFrom(old, h)
               /\ \A p \in ReachableFrom(old, h) : mem[p] = old[p]
               /\ ReachableFrom(mem, other_header) \cap ReachableFrom(mem, header) = {}

\* A full tree was copied, and two elements of the copy were erased.
C17_Witness ==
    /\ last.op = "later"
    /\ last.tree = "b"
    /\ last.n = MaxLater
    /\ size(mem) = MaxNodes
    /\ Len(InorderFrom(mem, other_header)) = MaxNodes - 2

\* C18: at(key) leaves by domain_error exactly when the tree is empty, by
\* out_of_range exactly when the tree is not empty and stores no element
\* equivalent to key, and otherwise returns the found element; the tree is
\* unchanged in all three outcomes.
C18_At ==
    last.op = "at" =>
        /\ mem = old
        /\ (last.thrown = "domain_error") <=> empty(old)
        /\ (last.thrown = "out_of_range") <=>
               (~empty(old) /\ ~HasEquivalent(old, last.key))
        /\ (~empty(old) /\ HasEquivalent(old, last.key)) =>
               /\ last.ok
               /\ last.thrown = "none"
               /\ last.node \in alloc
               /\ Equivalent(old[last.node].data, last.key)

\* The two failures and the unchanged tree, without the found case.
C18_AtFailures ==
    last.op = "at" =>
        /\ mem = old
        /\ (last.thrown = "domain_error") <=> empty(old)
        /\ (last.thrown = "out_of_range") <=>
               (~empty(old) /\ ~HasEquivalent(old, last.key))

\* The tree with sentinel h satisfies the structural invariants: the
\* sentinel is linked to the root and to the two extrema, child and parent
\* links agree, every size field is the node count of the subtree.
Structured(m, h) ==
    /\ Constructed(m, h)
    /\ IF m[h].parent = nullptr
       THEN m[h].left = h /\ m[h].right = h
       ELSE /\ m[m[h].parent].parent = h
            /\ InorderFrom(m, h) # <<>>
            /\ m[h].left = InorderFrom(m, h)[1]
            /\ m[h].right = InorderFrom(m, h)[Len(InorderFrom(m, h))]
    /\ \A t \in ReachableFrom(m, h) :
           /\ Constructed(m, t)
           /\ m[t].left # nullptr => m[m[t].left].parent = t
           /\ m[t].right # nullptr => m[m[t].right].parent = t
           /\ m[t].size = Len(InorderOf(m, t, MaxNodes + 1))

\* The sentinel of the tree the failed call was building or changing.
FailedOn == IF last.op = "copy_bad_alloc" THEN other_header ELSE header

\* C19: when the allocator fails while insert_equal, insert_unique or the
\* deep copy creates a node, the tree being built or changed is not left
\* partially linked: the memory is exactly as before the call, or the tree
\* satisfies all structural invariants.
C19_AllocatorFailure ==
    last.thrown = "bad_alloc" =>
        \/ mem = old
        \/ Structured(mem, FailedOn)

\* The two insertions alone: a failed creation leaves the memory as it was.
C19_InsertFailures ==
    (last.thrown = "bad_alloc" /\ last.op # "copy_bad_alloc") => mem = old

\* The values of the tree with sentinel h in in-order.
ValuesFrom(m, h) == Values(m, InorderFrom(m, h))

\* C20: x.swap(y) exchanges the complete contents of the two trees (each
\* then has the former sentinel, nodes and in-order sequence of the other)
\* and modifies no field of any node; the same swap once more restores both
\* trees; after the move construction of b from a, b has the former
\* sentinel and nodes of a unmodified and a is a valid empty tree.
C20_SwapMove ==
    /\ last.op = "swap" =>
           /\ mem = old
           /\ header_of[last.tree] = last.pos
           /\ header_of[last.rhs] = last.node
           /\ InorderFrom(mem, header_of[last.tree]) = InorderFrom(old, last.pos)
           /\ InorderFrom(mem, header_of[last.rhs]) = InorderFrom(old, last.node)
           /\ ValuesFrom(mem, header_of[last.tree]) = ValuesFrom(old, last.pos)
           /\ ValuesFrom(mem, header_of[last.rhs]) = ValuesFrom(old, last.node)
    /\ last.op = "swap_twice" =>
           /\ mem = old
           /\ header_of[last.tree] = last.node
           /\ header_of[last.rhs] = last.pos
    /\ last.op = "move" =>
           /\ header_of.b = last.node
           /\ \A p \in NodeIds \cup {last.node} : mem[p] = old[p]
           /\ InorderFrom(mem, header_of.b) = InorderFrom(old, last.node)
           /\ header_of.a \notin {nullptr, header_of.b}
           /\ Structured(mem, header_of.a)
           /\ mem[header_of.a].parent = nullptr
           /\ mem[header_of.a].size = 0
           /\ ReachableFrom(mem, header_of.a) = {}

\* Two trees of different contents were swapped twice.
C20_Witness ==
    /\ last.op = "swap_twice"
    /\ last.tree = "a"
    /\ last.rhs = "b"
    /\ ValuesFrom(mem, header) # ValuesFrom(mem, other_header)
    /\ Len(InorderFrom(mem, header)) = MaxNodes

\* A full tree was moved from.
C20_MovedFrom ==
    /\ last.op = "move"
    /\ Len(InorderFrom(mem, header_of.b)) = MaxNodes

\* The node t has two children.
TwoChildren(m, t) == t # header /\ m[t].left # nullptr /\ m[t].right # nullptr

\* The node that hangs where t hung before the call.
InPlaceOf(t) ==
    IF old[t].parent = header THEN mem[header].parent
    ELSE IF t = old[old[t].parent].left THEN mem[old[t].parent].left
    ELSE mem[old[t].parent].right

\* The traced erase put x in the place of the erased node: the climb began
\* where x was taken from (at x itself when x was a child of the erased
\* node, at the former parent of x otherwise), and x hangs in the place of
\* the erased node unless a rotation of the climb moved it.
ReplacedBy(x) ==
    /\ last.log # <<>>
    /\ last.log[1].node = IF old[x].parent = last.pos THEN x ELSE old[x].parent
    /\ ~Rotated => InPlaceOf(last.pos) = x

\* C21: when erase removes a node with two children, the replacement is the
\* leftmost node of the right subtree if size(left) >= size(right), and the
\* rightmost node of the left subtree otherwise.
C21_Replacement ==
    (last.op = "erase" /\ TwoChildren(old, last.pos)) =>
        ReplacedBy(IF old[old[last.pos].left].size >= old[old[last.pos].right].size
                   THEN leftmost(old, old[last.pos].right)
                   ELSE rightmost(old, old[last.pos].left))

\* C21 as amended: the replacement is the leftmost node of the right
\* subtree if size(left) < size(right), and the rightmost node of the left
\* subtree otherwise (it is taken from the side that is not the smaller).
C21_ReplacementFromLargerSide ==
    (last.op = "erase" /\ TwoChildren(old, last.pos)) =>
        ReplacedBy(IF old[old[last.pos].left].size < old[old[last.pos].right].size
                   THEN leftmost(old, old[last.pos].right)
                   ELSE rightmost(old, old[last.pos].left))

\* An erase of a node whose right subtree is the larger one, the
\* replacement not being its right child.
C21_Witness ==
    /\ last.op = "erase"
    /\ TwoChildren(old, last.pos)
    /\ old[old[last.pos].left].size < old[old[last.pos].right].size
    /\ leftmost(old, old[last.pos].right) # old[last.pos].right

\* The node under which a new node of value v is attached, found from t
\* downwards by the order alone (an equal value goes to the right).
RECURSIVE ParentOfNew(_, _, _)
ParentOfNew(m, t, v) ==
    IF comp(v, m[t].data)
    THEN IF m[t].left = nullptr THEN t ELSE ParentOfNew(m, m[t].left, v)
    ELSE IF m[t].right = nullptr THEN t ELSE ParentOfNew(m, m[t].right, v)

\* The traced call is an insert that attached a new node below another one.
AttachedBelow ==
    /\ last.op \in {"insert_equal", "insert_unique"}
    /\ last.ok
    /\ ~empty(old)

\* C22: after an insert attaches the new node, the rebalancer is invoked
\* exactly once per ancestor level, first on the parent of the new node and
\* then on each further ancestor up to and including the root, and never
\* with the sentinel as its node argument.
C22_InsertClimb ==
    AttachedBelow =>
        /\ last.log # <<>>
        /\ last.log[1].node = ParentOfNew(old, old[header].parent, last.key)
        /\ last.log[Len(last.log)].node = old[header].parent
        /\ \A i \in 1..Len(last.log) : last.log[i].node # header
        /\ \A i, j \in 1..Len(last.log) :
               last.log[i].node = last.log[j].node => i = j

\* The nodes of the subtree of t in pre-order, by structural recursion.
RECURSIVE PreorderOf(_, _, _)
PreorderOf(m, t, fuel) ==
    IF t \notin NodeIds \cup CloneIds \/ fuel = 0 THEN <<>>
    ELSE <<t>> \o PreorderOf(m, m[t].left, fuel - 1) \o PreorderOf(m, m[t].right, fuel - 1)

Preorder(m) == PreorderOf(m, m[header].parent, MaxNodes + 1)

\* The nodes below t.
Descendants(m, t) ==
    {InorderOf(m, t, MaxNodes + 1)[i] : i \in 1..Len(InorderOf(m, t, MaxNodes + 1))} \ {t}

\* The entries of a walk that are made in a descending state.
RECURSIVE Descents(_)
Descents(log) ==
    IF log = <<>> THEN <<>>
    ELSE IF Head(log).state = sb_tree_state_parent THEN Descents(Tail(log))
    ELSE <<Head(log).node>> \o Descents(Tail(log))

\* What every position of the walk from pbegin() satisfies on a non-empty
\* tree: at most two steps per node were made; the entries made in a
\* descending state (root, left, right, sibling) are a prefix of the
\* pre-order, the whole of it at pend(); a node is entered again only in
\* the parent state, after all its descendants have been entered.
C23_WalkInOrder ==
    (last.op = "pwalk" /\ ~empty(mem)) =>
        /\ Len(last.log) <= 2 * size(mem) + 1
        /\ last.log[1] = [node |-> mem[header].parent, state |-> sb_tree_state_root]
        /\ Len(Descents(last.log)) <= size(mem)
        /\ Descents(last.log) = SubSeq(Preorder(mem), 1, Len(Descents(last.log)))
        /\ \A i \in 2..Len(last.log) :
               /\ last.log[i].state \in {sb_tree_state_left, sb_tree_state_right,
                                         sb_tree_state_sibling, sb_tree_state_parent}
               /\ last.log[i].state = sb_tree_state_left =>
                      last.log[i].node = mem[last.log[i - 1].node].left
               /\ last.log[i].state = sb_tree_state_right =>
                      last.log[i].node = mem[last.log[i - 1].node].right
               /\ last.log[i].state = sb_tree_state_sibling =>
                      /\ last.log[i - 1].node = mem[mem[last.log[i].node].parent].left
                      /\ last.log[i].node = mem[mem[last.log[i].node].parent].right
               /\ last.log[i].state = sb_tree_state_parent =>
                      /\ last.log[i].node = mem[last.log[i - 1].node].parent
                      /\ \A d \in Descendants(mem, last.log[i].node) \cup
                                   (IF last.log[i].node = header
                                    THEN Reachable(mem) ELSE {last.log[i].node}) :
                             \E j \in 1..(i - 1) :
                                 /\ last.log[j].node = d
                                 /\ last.log[j].state # sb_tree_state_parent
        /\ last.node = header =>
               /\ Descents(last.log) = Preorder(mem)
               /\ last.state = sb_tree_state_parent
        /\ mem = old

\* The caller of the walk goes on with ++it until it == pend().
WalkSpec == Spec /\ WF_vars(PIncrement)

\* C23: on a non-empty tree the walk from pbegin() by ++ reaches pend()
\* after finitely many steps; every node is entered exactly once in a
\* descending state, these first entries are in pre-order, and a node is
\* entered again only in the parent state, after all its descendants.
C23_PrimitiveWalk ==
    /\ []C23_WalkInOrder
    /\ (last.op = "pwalk") ~> (last.op = "pwalk" /\ last.node = header)

\* The walk over a full tree has arrived at pend() and has passed from a
\* left child to its sibling on the way.
C23_Witness ==
    /\ last.op = "pwalk"
    /\ last.node = header
    /\ size(mem) = MaxNodes
    /\ \E i \in 1..Len(last.log) : last.log[i].state = sb_tree_state_sibling

\* C24: clear() on a non-empty tree terminates, destroys every node exactly
\* once and only when it has no remaining child, touches no node after it
\* was destroyed, and leaves the sentinel in the empty state; clear() on an
\* empty tree changes nothing.
C24_ClearDestroysLeaves ==
    last.op = "clear" =>
        IF empty(old)
        THEN mem = old /\ last.log = <<>>
        ELSE /\ Len(last.log) = size(old)
             /\ {last.log[i].node : i \in 1..Len(last.log)} = Reachable(old)
             /\ \A i, j \in 1..Len(last.log) :
                    last.log[i].node = last.log[j].node => i = j
             /\ \A i \in 1..Len(last.log) :
                    /\ last.log[i].constructed
                    /\ last.log[i].left = nullptr
                    /\ last.log[i].right = nullptr
                    /\ last.log[i].parent = old[last.log[i].node].parent
                    /\ \A j \in 1..(i - 1) : last.log[j].node # last.log[i].parent
                    /\ \A d \in Descendants(old, last.log[i].node) :
                           \E j \in 1..(i - 1) : last.log[j].node = d
             /\ \A p \in Reachable(old) : ~Constructed(mem, p)
             /\ mem[header] = create_header[header]
             /\ \A p \in NodeIds \ Reachable(old) : mem[p] = old[p]

\* A full tree was cleared in which a node had two children.
C24_Witness ==
    /\ last.op = "clear"
    /\ Len(last.log) = MaxNodes
    /\ \E p \in Reachable(old) : TwoChildren(old, p)

\* The traced call made a rebalance climb, of which log holds the calls.
Climbed == last.op \in {"insert_equal", "insert_unique", "erase", "erase_inserted"}

\* A rebalancer call as the node, the memory before and after, and the
\* root returned.
CallOf(c) == [node |-> c.node, before |-> c.before, after |-> c.after, root |-> c.root]

\* All rebalancer calls of a list of calls, the nested ones included.
RECURSIVE CallsIn(_)
CallsIn(calls) ==
    IF calls = <<>> THEN {}
    ELSE {CallOf(Head(calls))} \cup CallsIn(Head(calls).calls) \cup CallsIn(Tail(calls))

\* The node p of memory b with its link to t set to r.
Relinked(b, p, t, r) ==
    IF p = header THEN [b[p] EXCEPT !.parent = r]
    ELSE IF b[p].left = t THEN [b[p] EXCEPT !.left = r]
    ELSE [b[p] EXCEPT !.right = r]

\* The nodes of a sequence.
NodesOf(seq) == {seq[i] : i \in 1..Len(seq)}

\* The call c kept to the subtree it was called with.
FrameHolds(c) ==
    /\ InorderOf(c.after, c.root, MaxNodes + 1) = InorderOf(c.before, c.node, MaxNodes + 1)
    /\ c.after[c.root].size = c.before[c.node].size
    /\ c.after[c.root].parent = c.before[c.node].parent
    /\ c.after[c.before[c.node].parent] =
           Relinked(c.before, c.before[c.node].parent, c.node, c.root)
    /\ \A p \in (Addresses \ NodesOf(InorderOf(c.before, c.node, MaxNodes + 1)))
                  \ {c.before[c.node].parent} :
           c.after[p] = c.before[p]

LinksAgree(m, h) ==
    LET seq   == InorderFrom(m, h)
        nodes == {seq[i] : i \in 1..Len(seq)}
    IN  /\ m[h].parent \in NodeIds \cup CloneIds \cup {nullptr}
        /\ m[h].parent # nullptr => m[m[h].parent].parent = h
        /\ \A i, j \in 1..Len(seq) : seq[i] = seq[j] => i = j
        /\ \A n \in nodes :
               /\ m[n].left \in NodeIds \cup CloneIds \cup {nullptr}
               /\ m[n].right \in NodeIds \cup CloneIds \cup {nullptr}
               /\ m[n].left # nullptr => m[m[n].left].parent = n
               /\ m[n].right # nullptr => m[m[n].right].parent = n
               /\ n # m[h].parent =>
                      /\ m[n].parent \in nodes
                      /\ n \in {m[m[n].parent].left, m[m[n].parent].right}
               /\ m[n].left # nullptr => m[n].left # m[n].right

\* C27: in every state reachable by insert, erase and the rotations they
\* trigger, parent pointers agree with the child links, every non-root node
\* is a child of its parent, and the nodes form a tree without a cycle or a
\* shared child; this holds after every rebalancer call of a climb too.
C27_LinksAgree ==
    /\ \A x \in {"a", "b"} :
           header_of[x] # nullptr => LinksAgree(mem, header_of[x])
    /\ Climbed =>
           \A i \in 1..Len(last.log) : LinksAgree(last.log[i].after, header)

\* An insert or erase that rotated, on a tree that then has a node with two
\* children.
C27_Witness ==
    /\ Climbed
    /\ Rotated
    /\ \E n \in Reachable(mem) : mem[n].left # nullptr /\ mem[n].right # nullptr

\* ------------------------------------------------------------- C28
\* The sequence seq without its element x.
WithoutNode(seq, x) == SelectSeq(seq, LAMBDA n : n # x)

\* The node after x in seq, the sentinel after the last one.
NodeAfter(seq, x) ==
    LET i == CHOOSE k \in 1..Len(seq) : seq[k] = x
    IN  IF i = Len(seq) THEN header ELSE seq[i + 1]

\* C28: erase(pos) for pos # end() removes exactly the node pos designates,
\* by identity, and returns the position of that node's in-order successor
\* (end() if it was last); no payload is moved, so every other node keeps
\* its identity and value and its relative in-order position; erase(end())
\* changes nothing and returns end().
C28_ErasePosition ==
    last.op = "erase" =>
        IF last.pos # end(old)
        THEN /\ Inorder(mem) = WithoutNode(Inorder(old), last.pos)
             /\ ~Constructed(mem, last.pos)
             /\ last.node = NodeAfter(Inorder(old), last.pos)
             /\ \A n \in Reachable(mem) : mem[n].data = old[n].data
             /\ Live(mem) = Live(old) \ {last.pos}
        ELSE /\ mem = old
             /\ last.node = end(old)

\* A node with two children was erased while an equivalent element stays in
\* the tree, and it was not the last one.
C28_Witness ==
    /\ last.op = "erase"
    /\ last.pos # end(old)
    /\ TwoChildren(old, last.pos)
    /\ HasEquivalent(mem, old[last.pos].data)
    /\ last.node # end(mem)

\* erase(end()) was called on a tree that is not empty.
C28_WitnessEnd ==
    /\ last.op = "erase"
    /\ last.pos = end(old)
    /\ ~empty(old)

\* ------------------------------------------------------------- C29
\* C29: whenever the insert or erase climb calls the rebalancer with the
\* sentinel as the node (the sentinel's left and right, the two extrema,
\* being read as its children), the call performs no rotation, makes no
\* nested call and modifies no field of the sentinel or of any node:
\* header.size stays 0, and header.left, header.right and header.parent are
\* what they were.
C29_SentinelCall ==
    Climbed =>
        \A i \in 1..Len(last.log) :
            last.log[i].node = header =>
                /\ ~last.log[i].changed
                /\ last.log[i].after = last.log[i].before
                /\ last.log[i].calls = <<>>
                /\ last.log[i].root = header
                /\ last.log[i].after[header].size = 0

\* The climb of an erase on a full tree called the rebalancer with the
\* sentinel, whose left and right were two different nodes then.
C29_Witness ==
    /\ last.op = "erase"
    /\ size(old) = MaxNodes
    /\ \E i \in 1..Len(last.log) :
           /\ last.log[i].node = header
           /\ last.log[i].before[header].left # last.log[i].before[header].right
           /\ last.log[i].before[header].left # header

\* The climb of an insert called the rebalancer with the sentinel.
C29_WitnessInsert ==
    /\ last.op \in {"insert_equal", "insert_unique"}
    /\ \E i \in 1..Len(last.log) :
           /\ last.log[i].node = header
           /\ last.log[i].before[header].left # last.log[i].before[header].right

====
